---- MODULE Spec2Model ----
(***************************************************************************)
(* Verification model of dftracer-utils: the reader's stream state         *)
(* machines (LineStream, MultiLineStream over a LINE_BYTES stream), the    *)
(* byte-range partition read, and the split driver's result handling.      *)
(*                                                                         *)
(* Bytes are integers.  NL (0) is '\n'; every other byte of an archive is   *)
(* the (positive) offset at which it stands, so that a byte delivered       *)
(* twice, dropped or moved shows in the output.  The stream code compares   *)
(* bytes with '\n' only.                                                    *)
(***************************************************************************)
EXTENDS Integers, Sequences, FiniteSets, TLC

\* ------------------------------------------------------------------ bounds
MaxLines == 3
MaxLineLen == 3
MinBuf == 2
MaxBuf == 4
MaxCoalesce == 2
MaxInitialLine == 2
MaxReads == 4

\* ------------------------------------------------------- program constants
DEFAULT_READ_BUFFER_SIZE == 1048576
\* SIZE_MAX, as the largest integer of the model (32 bits).
SIZE_MAX == 2147483647
NL == 0

VARIABLES
    content,       \* the decompressed bytes the underlying stream ranges over
    kind,          \* "Line" (LineStream) or "MultiLines" (MultiLineStream)
    start_line,    \* start_line_ of the wrapper (0: no line filter)
    end_line,      \* end_line_ of the wrapper (0: no line filter)
    initial_line,  \* initial_line_: number of the first line the underlying delivers
    uEager,        \* whether the underlying done() turns true with its last line
    uPerRead,      \* how many complete lines one underlying read() delivers
    st,            \* the stream object's fields (wrapper and underlying)
    out,           \* every byte read() has returned so far, in order
    lastRet,       \* what the last read() returned
    lastBuf,       \* the buffer_size of the last read()
    minBuf,        \* the smallest buffer_size of the read() calls so far
    doneBefore,    \* done() just before the last read()
    calls          \* number of read() calls made

streamVars == <<content, kind, start_line, end_line, initial_line, uEager,
                uPerRead, st, out, lastRet, lastBuf, minBuf, doneBefore, calls>>

\* The byte-range partition read: worker i reads [cuts[i], cuts[i + 1]) with
\* its own LINE_BYTES stream on the shared Reader.
VARIABLES
    num_workers,   \* number of worker threads, one chunk of the partition each
    cuts,          \* the partition's boundaries c0 .. ck, as cuts[1] .. cuts[k + 1]
    wstream,       \* worker -> its stream's fields
    wpc,           \* worker -> "start", "loop" (reading until done()) or "done"
    chunks,        \* worker -> the bytes its read() calls returned, appended
    reads,         \* worker -> the non-empty read() results, one by one
    overlap,       \* a read() happened while another worker was in mid-stream
    joined,        \* the main thread joined the workers and collected the lines
    worker_lines   \* the sorted lines of all workers, once joined

partVars == <<num_workers, cuts, wstream, wpc, chunks, reads, overlap, joined,
              worker_lines>>

\* The split driver (dftracer_split's main) and what its tasks hand back.
VARIABLES
    files,            \* the input directory: per file its lines and how it opens
    verify,           \* --verify was given
    dpc,              \* where main stands
    all_metadata,     \* phase 1: one metadata record per file
    manifests,        \* phase 2: the chunk manifests
    futures,          \* phase 3: chunk -> its extraction task's result, once run
    results,          \* the extraction results, sorted by chunk_index
    successful_chunks,
    unopened,         \* the input file the verifier could not open, or 0
    verify_result,    \* the verifier's output
    exit_code         \* main's return value, -1 while it runs

splitVars == <<files, verify, dpc, all_metadata, manifests, futures, results,
               successful_chunks, unopened, verify_result, exit_code>>

\* The manifest mapper: its input, the position of its loop over the files
\* and lines, the chunk being filled and the manifests emitted so far.
VARIABLES file_metadata, target_chunk_size_mb, mpc, file_idx, current_line,
          remaining_size, current_manifest, mapped, last_take

mapVars == <<file_metadata, target_chunk_size_mb, mpc, file_idx, current_line,
             remaining_size, current_manifest, mapped, last_take>>

\* The chunk extractor: the input archives, the task's input, the position
\* of extract_and_write, the two files it writes and its result.
VARIABLES src_files, ext_input, epc, spec_idx, output_file, compressed_file,
          total_events, result, failure

extVars == <<src_files, ext_input, epc, spec_idx, output_file,
             compressed_file, total_events, result, failure>>

\* The batch processor running the extraction tasks: the chunk index of each
\* item, the position of process, each task's future, the order in which the
\* tasks completed, the values got from the futures and the vector returned.
VARIABLES items, bpc, task_results, completed, gathered, batch_results

batchVars == <<items, bpc, task_results, completed, gathered, batch_results>>

\* The driver's phases 0 to 2 seen as tasks: the --threads value, the number
\* of files the directory scan matches, the phase and the position in it, the
\* per-file tasks of the phase, the results the workflow has got from their
\* futures, the metadata list main keeps, what the mapper was started with,
\* and the largest number of per-file tasks that ran at the same time.
VARIABLES num_threads, dir_files, phase, ppc, tasks, output_results,
          metadata_list, mapper_input, peak_running

phaseVars == <<num_threads, dir_files, phase, ppc, tasks, output_results,
               metadata_list, mapper_input, peak_running>>

\* The executor: its flags, the task queue and whether it was shut down, each
\* worker thread's position and task, each submitted task's promise, the tasks
\* started, the position of the thread that calls shutdown, and which tasks
\* were queued and which were running when shutdown was first asked for.
VARIABLES num_threads_, running_, shutdown_requested_, queue_, queue_shutdown,
          worker_pc, worker_task, promise, tasks_started, xpc, at_shutdown

execVars == <<num_threads_, running_, shutdown_requested_, queue_,
              queue_shutdown, worker_pc, worker_task, promise, tasks_started,
              xpc, at_shutdown>>

\* A stream request on the Reader: the stream type and byte range asked for,
\* and what the caller was handed. The stream itself is st, its reads are
\* recorded in out, lastRet and calls.
VARIABLES stream_type, start_bytes, end_bytes, handed

reqVars == <<stream_type, start_bytes, end_bytes, handed>>

\* Reader::estimate_lines_in_range: the reader's totals, the range asked for
\* and the value returned.
VARIABLES est_num_lines, est_max_bytes, est_start, est_end, est_lines, est_pc

estVars == <<est_num_lines, est_max_bytes, est_start, est_end, est_lines,
             est_pc>>

\* Metadata collection for one file: the file's lines, whether it is plain,
\* which collector runs, and the record it returns.
VARIABLES md_lines, md_plain, md_collector, md_file_size, md_meta, md_pc

metaVars == <<md_lines, md_plain, md_collector, md_file_size, md_meta, md_pc>>

\* Reading a plain file chunk by chunk through PlainFileBytesIterator: the
\* file's bytes, the chunk boundaries, which of the two classes is used, the
\* chunk being read, the iterator on it and the lines yielded so far.
VARIABLES pf_text, pf_cuts, pf_class, pf_chunk, pf_it, pf_yielded, pf_pc

pfVars == <<pf_text, pf_cuts, pf_class, pf_chunk, pf_it, pf_yielded, pf_pc>>

\* Executor::execute_task on each worker: where the worker is in it, how often
\* the promise of its task was fulfilled and its completion counted, the two
\* counters, whether a completion callback is set, and the tallies of the
\* tasks that are through.
VARIABLES et_pc, et_fulfilled, et_counted, tasks_started_, tasks_completed_,
          completion_callback_, et_finished

taskVars == <<et_pc, et_fulfilled, et_counted, tasks_started_,
              tasks_completed_, completion_callback_, et_finished>>

\* One utility instance run by several tasks through execute_with_context:
\* its context pointer (0 is nullptr, otherwise the task whose TaskContext it
\* points to), where each task is, and what context() gave each task.
VARIABLES ctx_, uc_pc, uc_seen

ctxVars == <<ctx_, uc_pc, uc_seen>>

\* UtilityExecutor::execute under a RetryBehavior: the behavior's settings,
\* the attempt counter of the loop, how often process was invoked, how long
\* the behavior slept, where the loop is, and what execute threw.
VARIABLES max_retries_, base_delay_, exponential_backoff_, attempt,
          invocations, slept, rt_pc, rt_thrown

retryVars == <<max_retries_, base_delay_, exponential_backoff_, attempt,
               invocations, slept, rt_pc, rt_thrown>>

\* A CachingBehavior: its settings, the cache (key -> value and whether the
\* entry has outlived the TTL) and the LRU list, most recently used first.
VARIABLES max_cache_size_, use_lru_, cache_, lru_list_

cacheVars == <<max_cache_size_, use_lru_, cache_, lru_list_>>

vars == <<streamVars, partVars, splitVars, mapVars, extVars, batchVars,
         phaseVars,
         execVars,
         reqVars,
         estVars,
         metaVars,
         pfVars,
         taskVars,
         ctxVars,
         retryVars,
         cacheVars>>

\* ------------------------------------------------------------ archive text
Min(a, b) == IF a < b THEN a ELSE b

RECURSIVE SumTo(_, _)
SumTo(lens, i) == IF i = 0 THEN 0 ELSE lens[i] + SumTo(lens, i - 1)

\* The text whose i-th line has lens[i] bytes, its newline included.
RECURSIVE TextOf(_, _)
TextOf(lens, i) ==
    IF i = 0 THEN << >>
    ELSE LET base == SumTo(lens, i - 1)
         IN  TextOf(lens, i - 1) \o
             [j \in 1..lens[i] |-> IF j = lens[i] THEN NL ELSE base + j]

LineLens == UNION {[1..n -> 1..MaxLineLen] : n \in 0..MaxLines}

\* Offset (0-based) of the first newline of buf at or after offset pos, or -1: memchr.
RECURSIVE FindNewline(_, _)
FindNewline(buf, pos) ==
    IF pos >= Len(buf) THEN -1
    ELSE IF buf[pos + 1] = NL THEN pos
    ELSE FindNewline(buf, pos + 1)

\* buf[from, to) with 0-based offsets.
Bytes(buf, from, to) == SubSeq(buf, from + 1, to)

\* Number of newlines in buf.
RECURSIVE CountNL(_)
CountNL(buf) ==
    IF buf = << >> THEN 0
    ELSE (IF buf[1] = NL THEN 1 ELSE 0) + CountNL(Tail(buf))

\* The lines first..last (1-based, inclusive) of text, newlines included.
RECURSIVE LinesOf(_, _, _, _)
LinesOf(text, pos, first, last) ==
    IF last < 1 \/ pos >= Len(text) THEN << >>
    ELSE LET nl == FindNewline(text, pos)
             e  == IF nl = -1 THEN Len(text) ELSE nl + 1
         IN  (IF first <= 1 THEN Bytes(text, pos, e) ELSE << >>) \o
             LinesOf(text, e, first - 1, last - 1)

\* ----------------------------------------- underlying LINE_BYTES stream
\* End offset of the k-th complete line at or after pos, not beyond limit.
RECURSIVE AfterLines(_, _, _, _)
AfterLines(text, pos, k, limit) ==
    IF k = 0 \/ pos >= limit THEN pos
    ELSE LET nl == FindNewline(text, pos)
         IN  IF nl = -1 THEN Len(text)
             ELSE AfterLines(text, nl + 1, k - 1, limit)

\* A faulty alignment: the line that holds offset a is always skipped, even
\* when a is itself a line start.
AlignStartSkipping(text, a) ==
    IF a = 0 THEN 0
    ELSE LET nl == FindNewline(text, a) IN
         IF nl = -1 THEN Len(text) ELSE nl + 1

\* The first line start at or after offset a: a line is the stream's if its
\* first byte lies in [a, b).
AlignStart(text, a) ==
    IF a = 0 THEN 0
    ELSE LET nl == FindNewline(text, a - 1) IN
         IF nl = -1 THEN Len(text) ELSE nl + 1

\* A faulty open: the stream starts at a itself.
LineBytesOpenUnaligned(text, a, b, eager) ==
    [upos |-> a, uend |-> b, udone |-> eager /\ a >= b,
     rbuf |-> << >>, bpos |-> 0]

\* reader->stream(LINE_BYTES, BYTE_RANGE, a, b): the stream's own fields.
LineBytesOpen(text, a, b, eager) ==
    [upos |-> AlignStart(text, a), uend |-> b,
     udone |-> eager /\ AlignStart(text, a) >= b,
     rbuf |-> << >>, bpos |-> 0]

\* underlying_stream_->read(read_buffer_.data(), read_buffer_.size()):
\* complete lines only, as many as one read delivers and the buffer holds.
UnderlyingRead(s) ==
    IF s.upos >= s.uend
    THEN [s EXCEPT !.udone = TRUE, !.rbuf = << >>, !.bpos = 0]
    ELSE LET one == AfterLines(content, s.upos, 1, s.uend)
             e   == AfterLines(content, s.upos, uPerRead, s.uend)
             to  == IF e - s.upos <= DEFAULT_READ_BUFFER_SIZE THEN e
                    ELSE IF one - s.upos <= DEFAULT_READ_BUFFER_SIZE THEN one
                    ELSE s.upos
         IN  [s EXCEPT !.rbuf = Bytes(content, s.upos, to), !.bpos = 0,
                       !.upos = to,
                       !.udone = uEager /\ to >= s.uend]

\* ------------------------------------------------------------- LineStream
LS_is_beyond_range(s) == end_line > 0 /\ s.lineno > end_line

LS_should_output_current_line(s) ==
    IF start_line = 0 /\ end_line = 0 THEN TRUE
    ELSE (start_line = 0 \/ s.lineno >= start_line) /\
         (end_line = 0 \/ s.lineno <= end_line)

\* .ok is the function's boolean result.
LS_refill_buffer_if_needed(s) ==
    IF s.bpos < Len(s.rbuf) THEN [s EXCEPT !.ok = TRUE]
    ELSE IF s.udone THEN [s EXCEPT !.ok = FALSE]
    ELSE LET r == UnderlyingRead(s) IN [r EXCEPT !.ok = Len(r.rbuf) > 0]

\* .ret is the bytes written to the caller's buffer (empty: returned 0).
RECURSIVE LS_direct_loop(_, _)
LS_direct_loop(s, n) ==
    IF LS_is_beyond_range(s) THEN [s EXCEPT !.fin = TRUE]
    ELSE LET r == LS_refill_buffer_if_needed(s) IN
         IF ~r.ok THEN r
         ELSE LET nl == FindNewline(r.rbuf, r.bpos) IN
              IF nl = -1 THEN r
              ELSE IF nl - r.bpos + 1 > n THEN r
              ELSE LET should_output == LS_should_output_current_line(r)
                       r2 == [r EXCEPT !.lineno = @ + 1, !.bpos = nl + 1]
                   IN  IF should_output
                       THEN [r2 EXCEPT !.ret = Bytes(r.rbuf, r.bpos, nl + 1)]
                       ELSE LS_direct_loop(r2, n)

LS_try_direct_output(s, n) ==
    IF s.acc # << >> THEN s ELSE LS_direct_loop(s, n)

LS_process_complete_line(s, nl) ==
    LET line == s.acc \o Bytes(s.rbuf, s.bpos, nl) \o <<NL>>
        r    == [s EXCEPT !.cur = line, !.acc = << >>, !.bpos = nl + 1]
        should_output == LS_should_output_current_line(r)
    IN  IF LS_is_beyond_range(r) THEN [r EXCEPT !.fin = TRUE, !.ok = FALSE]
        ELSE IF should_output
             THEN [r EXCEPT !.lineno = @ + 1, !.pend = TRUE, !.opos = 0,
                            !.ok = TRUE]
             ELSE [r EXCEPT !.lineno = @ + 1, !.cur = << >>, !.ok = FALSE]

\* The inner while of parse_next_line: .ok TRUE when a line is pending.
RECURSIVE LS_parse_buffer(_)
LS_parse_buffer(s) ==
    IF s.bpos >= Len(s.rbuf) THEN [s EXCEPT !.ok = FALSE]
    ELSE LET nl == FindNewline(s.rbuf, s.bpos) IN
         IF nl = -1
         THEN [s EXCEPT !.acc = @ \o Bytes(s.rbuf, s.bpos, Len(s.rbuf)),
                        !.bpos = Len(s.rbuf), !.ok = FALSE]
         ELSE LET r == LS_process_complete_line(s, nl) IN
              IF r.ok THEN r ELSE LS_parse_buffer(r)

LS_parse_eof(s) ==
    IF s.udone /\ s.acc # << >>
    THEN LET r == [s EXCEPT !.cur = s.acc, !.acc = << >>] IN
         IF LS_should_output_current_line(r) /\ ~LS_is_beyond_range(r)
         THEN [r EXCEPT !.pend = TRUE, !.opos = 0, !.lineno = @ + 1, !.ok = TRUE]
         ELSE [r EXCEPT !.fin = TRUE, !.ok = FALSE]
    ELSE [s EXCEPT !.fin = TRUE, !.ok = FALSE]

RECURSIVE LS_parse_loop(_)
LS_parse_loop(s) ==
    LET r == LS_refill_buffer_if_needed(s) IN
    IF ~r.ok THEN LS_parse_eof(r)
    ELSE LET p == LS_parse_buffer(r) IN
         IF p.ok THEN p ELSE LS_parse_loop(p)

LS_parse_next_line(s) ==
    IF LS_is_beyond_range(s) THEN [s EXCEPT !.fin = TRUE, !.ok = FALSE]
    ELSE LS_parse_loop(s)

LS_output_pending_line(s, n) ==
    IF s.opos >= Len(s.cur)
    THEN [s EXCEPT !.pend = FALSE, !.cur = << >>, !.opos = 0, !.ret = << >>]
    ELSE LET copy_size == Min(Len(s.cur) - s.opos, n)
             r == [s EXCEPT !.ret = Bytes(s.cur, s.opos, s.opos + copy_size),
                            !.opos = @ + copy_size]
         IN  IF r.opos >= Len(r.cur)
             THEN [r EXCEPT !.pend = FALSE, !.cur = << >>, !.opos = 0]
             ELSE r

LS_read(s0, n) ==
    LET s == [s0 EXCEPT !.ret = << >>] IN
    IF s.pend THEN LS_output_pending_line(s, n)
    ELSE IF s.fin THEN s
    ELSE LET w == LS_try_direct_output(s, n) IN
         IF Len(w.ret) > 0 THEN w
         ELSE LET p == LS_parse_next_line(w) IN
              IF ~p.ok THEN p ELSE LS_output_pending_line(p, n)

LS_done(s) == s.fin /\ ~s.pend

\* -------------------------------------------------------- MultiLineStream
ML_calculate_max_lines ==
    IF end_line > 0 /\ start_line > 0 THEN end_line - start_line + 1
    ELSE SIZE_MAX

ML_reached_end_of_range(s) == end_line > 0 /\ s.lineno > end_line

ML_reached_max_lines(s, max_lines) == s.nout >= max_lines

ML_should_continue_reading(s, max_lines) ==
    ~s.udone /\ ~ML_reached_end_of_range(s) /\ ~ML_reached_max_lines(s, max_lines)

ML_is_line_in_output_range(s) ==
    s.lineno >= start_line /\ (end_line = 0 \/ s.lineno <= end_line)

ML_refill_buffer_if_needed(s) ==
    IF s.bpos < Len(s.rbuf) THEN [s EXCEPT !.ok = TRUE]
    ELSE LET r == UnderlyingRead(s) IN [r EXCEPT !.ok = Len(r.rbuf) > 0]

\* .ok: the line was output; FALSE: the caller's buffer is full.
ML_try_output_line(s, n, line_len) ==
    LET line == Bytes(s.rbuf, s.bpos, s.bpos + line_len) IN
    IF s.acc = << >>
    THEN IF Len(s.ret) + line_len + 1 > n
         THEN [s EXCEPT !.acc = @ \o line, !.ok = FALSE]
         ELSE [s EXCEPT !.ret = @ \o line \o <<NL>>, !.nout = @ + 1, !.ok = TRUE]
    ELSE LET r == [s EXCEPT !.acc = @ \o line] IN
         IF Len(r.ret) + Len(r.acc) + 1 > n
         THEN [r EXCEPT !.ok = FALSE]
         ELSE [r EXCEPT !.ret = @ \o r.acc \o <<NL>>, !.nout = @ + 1,
                        !.acc = << >>, !.ok = TRUE]

\* .ok: FALSE if finished or buffer full, TRUE to continue reading.
RECURSIVE ML_process_buffer_lines(_, _, _)
ML_process_buffer_lines(s, n, max_lines) ==
    IF s.bpos >= Len(s.rbuf) THEN [s EXCEPT !.ok = TRUE]
    ELSE LET nl == FindNewline(s.rbuf, s.bpos) IN
         IF nl = -1
         THEN [s EXCEPT !.acc = @ \o Bytes(s.rbuf, s.bpos, Len(s.rbuf)),
                        !.bpos = Len(s.rbuf), !.ok = TRUE]
         ELSE LET in_range   == ML_is_line_in_output_range(s)
                  can_output == s.nout < max_lines
                  t == IF in_range /\ can_output
                       THEN ML_try_output_line(s, n, nl - s.bpos)
                       ELSE IF ML_reached_end_of_range(s)
                            THEN [s EXCEPT !.fin = TRUE, !.ok = FALSE]
                            ELSE [s EXCEPT !.acc = << >>, !.ok = TRUE]
              IN  IF ~t.ok THEN t
                  ELSE LET a == [t EXCEPT !.lineno = @ + 1, !.bpos = nl + 1] IN
                       IF ML_reached_max_lines(a, max_lines)
                       THEN [a EXCEPT !.fin = TRUE, !.ok = FALSE]
                       ELSE ML_process_buffer_lines(a, n, max_lines)

RECURSIVE ML_read_loop(_, _, _)
ML_read_loop(s, n, max_lines) ==
    IF ML_should_continue_reading(s, max_lines) /\ Len(s.ret) < n
    THEN LET r == ML_refill_buffer_if_needed(s) IN
         IF ~r.ok THEN r
         ELSE LET p == ML_process_buffer_lines(r, n, max_lines) IN
              IF ~p.ok THEN p ELSE ML_read_loop(p, n, max_lines)
    ELSE s

ML_handle_final_line(s, n, max_lines) ==
    IF ~s.udone \/ s.acc = << >> \/ ~ML_is_line_in_output_range(s) \/
       ML_reached_max_lines(s, max_lines)
    THEN s
    ELSE IF Len(s.ret) + Len(s.acc) <= n
         THEN [s EXCEPT !.ret = @ \o s.acc, !.acc = << >>, !.nout = @ + 1]
         ELSE s

ML_update_finish_state(s, max_lines) ==
    IF s.udone \/ ML_reached_end_of_range(s) \/ ML_reached_max_lines(s, max_lines)
    THEN [s EXCEPT !.fin = TRUE]
    ELSE s

\* A faulty read() without the is_finished_ guard.
ML_read_unguarded(s0, n) ==
    LET s == [s0 EXCEPT !.ret = << >>] IN
    ML_update_finish_state(
        ML_handle_final_line(
            ML_read_loop(s, n, ML_calculate_max_lines),
            n, ML_calculate_max_lines),
        ML_calculate_max_lines)

ML_read(s0, n) ==
    LET s == [s0 EXCEPT !.ret = << >>] IN
    IF s.fin THEN s
    ELSE ML_update_finish_state(
             ML_handle_final_line(
                 ML_read_loop(s, n, ML_calculate_max_lines),
                 n, ML_calculate_max_lines),
             ML_calculate_max_lines)

ML_done(s) == s.fin \/ (s.udone /\ s.acc = << >>)

\* ------------------------------------------------------- the stream object
\* A stream of either kind, as constructed, over the underlying stream's
\* aligned range [0, Len(text)).
NewStream(text, line0, eager) ==
    LET u == LineBytesOpen(text, 0, Len(text), eager) IN
    [upos |-> u.upos, uend |-> u.uend, udone |-> u.udone,
     rbuf |-> u.rbuf, bpos |-> u.bpos, acc |-> << >>, cur |-> << >>,
     fin |-> FALSE, pend |-> FALSE, lineno |-> line0, opos |-> 0,
     nout |-> 0, ok |-> TRUE, ret |-> << >>]

StreamRead(s, n) == IF kind = "Line" THEN LS_read(s, n) ELSE ML_read(s, n)

StreamDone(s) == IF kind = "Line" THEN LS_done(s) ELSE ML_done(s)

\* The line ranges a stream can be opened on, given the first line the
\* underlying stream delivers; <<0, 0>> is a byte-range stream (no line filter).
Ranges(nlines, line0) ==
    {<<0, 0>>} \cup
    {<<a, b>> \in (line0..(line0 + nlines - 1)) \X (line0..(line0 + nlines - 1)) :
        a <= b}

\* No partition read is under way.
PartitionIdle ==
    /\ num_workers = 0
    /\ cuts = << >>
    /\ wstream = << >>
    /\ wpc = << >>
    /\ chunks = << >>
    /\ reads = << >>
    /\ overlap = FALSE
    /\ joined = FALSE
    /\ worker_lines = << >>

NoVerification ==
    [ran |-> FALSE, passed |-> FALSE, input_hash |-> 0, output_hash |-> 0]

\* No split run is under way.
SplitIdle ==
    /\ files = << >>
    /\ verify = FALSE
    /\ dpc = "idle"
    /\ all_metadata = << >>
    /\ manifests = << >>
    /\ futures = << >>
    /\ results = << >>
    /\ successful_chunks = 0
    /\ unopened = 0
    /\ verify_result = NoVerification
    /\ exit_code = -1

EmptyManifest == [specs |-> << >>, total_size_mb |-> 0]

NoTake == [taken |-> FALSE, lines |-> 0, remaining_lines |-> 0, r |-> 0,
           size_per_line |-> 0, split |-> FALSE]

\* No mapping is under way.
MapperIdle ==
    /\ file_metadata = << >>
    /\ target_chunk_size_mb = 0
    /\ mpc = "idle"
    /\ file_idx = 0
    /\ current_line = 0
    /\ remaining_size = 0
    /\ current_manifest = EmptyManifest
    /\ mapped = << >>
    /\ last_take = NoTake

NoFile == [exists |-> FALSE, open |-> FALSE, content |-> << >>]

NoCompressedFile == [exists |-> FALSE, data |-> << >>, finished |-> FALSE]

\* DFTracerChunkExtractionResult()
NoExtraction ==
    [chunk_index |-> 0, output_path |-> [chunk_index |-> 0, ext |-> ""],
     events |-> 0, success |-> FALSE]

\* No extraction is under way.
ExtractIdle ==
    /\ src_files = << >>
    /\ ext_input = [chunk_index |-> 0, specs |-> << >>, compress |-> FALSE]
    /\ epc = "idle"
    /\ spec_idx = 0
    /\ output_file = NoFile
    /\ compressed_file = NoCompressedFile
    /\ total_events = 0
    /\ result = NoExtraction
    /\ failure = "none"

NotMapped == [started |-> FALSE, metadata |-> << >>]

\* The driver is not running its phases.
PhasesIdle ==
    /\ num_threads = 0
    /\ dir_files = 0
    /\ phase = 0
    /\ ppc = "idle"
    /\ tasks = << >>
    /\ output_results = << >>
    /\ metadata_list = << >>
    /\ mapper_input = NotMapped
    /\ peak_running = 0

NoShutdown == [asked |-> FALSE, queued |-> {}, running |-> {}]

\* No executor was constructed.
ExecutorIdle ==
    /\ num_threads_ = 0
    /\ running_ = FALSE
    /\ shutdown_requested_ = FALSE
    /\ queue_ = << >>
    /\ queue_shutdown = FALSE
    /\ worker_pc = << >>
    /\ worker_task = << >>
    /\ promise = << >>
    /\ tasks_started = {}
    /\ xpc = "idle"
    /\ at_shutdown = NoShutdown

\* No batch is being processed.
BatchIdle ==
    /\ items = << >>
    /\ bpc = "idle"
    /\ task_results = << >>
    /\ completed = << >>
    /\ gathered = << >>
    /\ batch_results = << >>

\* Where the underlying stream can fail: nowhere (the end of the content), or
\* at a line start, the underlying stream delivering complete lines. The call
\* that fails delivers nothing and leaves the underlying stream exhausted:
\* its read() returns 0 and its done() true from then on.
FailurePoints ==
    IF uEager THEN {Len(content)}
    ELSE {Len(content)} \cup
         {p \in 0..Len(content) : p = 0 \/ content[p] = NL}

\* No stream was requested.
RequestIdle ==
    /\ stream_type = "BYTES"
    /\ start_bytes = 0
    /\ end_bytes = 0
    /\ handed = "none"

EstimateIdle ==
    /\ est_num_lines = 0
    /\ est_max_bytes = 0
    /\ est_start = 0
    /\ est_end = 0
    /\ est_lines = 0
    /\ est_pc = "idle"

MetadataIdle ==
    /\ md_lines = << >>
    /\ md_plain = FALSE
    /\ md_collector = "utilities"
    /\ md_file_size = 0
    /\ md_meta = << >>
    /\ md_pc = "idle"

NoIterator ==
    [pos |-> 0, eof |-> FALSE, fail |-> FALSE, current_byte |-> 0,
     end_byte |-> 0, exhausted |-> TRUE, lines |-> << >>, current_index |-> 0]

PlainIterIdle ==
    /\ pf_text = << >>
    /\ pf_cuts = <<0>>
    /\ pf_class = "components"
    /\ pf_chunk = 0
    /\ pf_it = NoIterator
    /\ pf_yielded = << >>
    /\ pf_pc = "idle"

ExecuteTaskIdle ==
    /\ et_pc = << >>
    /\ et_fulfilled = << >>
    /\ et_counted = << >>
    /\ tasks_started_ = 0
    /\ tasks_completed_ = 0
    /\ completion_callback_ = FALSE
    /\ et_finished = {}

ContextIdle ==
    /\ ctx_ = 0
    /\ uc_pc = << >>
    /\ uc_seen = << >>

RetryIdle ==
    /\ max_retries_ = 0
    /\ base_delay_ = 0
    /\ exponential_backoff_ = FALSE
    /\ attempt = 0
    /\ invocations = 0
    /\ slept = 0
    /\ rt_pc = "idle"
    /\ rt_thrown = << >>

CacheIdle ==
    /\ max_cache_size_ = 0
    /\ use_lru_ = FALSE
    /\ cache_ = << >>
    /\ lru_list_ = << >>

\* The underlying stream has failed before the end of the content.
Failed(s) == s.udone /\ s.uend < Len(content)

InitStream ==
    /\ \E lens \in LineLens : content = TextOf(lens, Len(lens))
    /\ kind \in {"Line", "MultiLines"}
    /\ initial_line \in 1..MaxInitialLine
    /\ \E r \in Ranges(CountNL(content), initial_line) :
          /\ start_line = r[1]
          /\ end_line = r[2]
          /\ (r = <<0, 0>> => initial_line = 1)
    /\ uEager \in BOOLEAN
    /\ uPerRead \in 1..MaxCoalesce
    /\ \E f \in FailurePoints :
          st = [NewStream(content, initial_line, uEager) EXCEPT !.uend = f]
    /\ out = << >>
    /\ lastRet = << >>
    /\ lastBuf = 0
    /\ minBuf = MaxBuf
    /\ doneBefore = FALSE
    /\ calls = 0
    /\ PartitionIdle
    /\ SplitIdle
    /\ MapperIdle
    /\ ExtractIdle
    /\ BatchIdle
    /\ PhasesIdle
    /\ ExecutorIdle
    /\ RequestIdle
    /\ EstimateIdle
    /\ MetadataIdle
    /\ PlainIterIdle
    /\ ExecuteTaskIdle
    /\ ContextIdle
    /\ RetryIdle
    /\ CacheIdle

\* The caller calls read(buffer, n).
Read(n) ==
    /\ calls < MaxReads
    /\ st' = StreamRead(st, n)
    /\ out' = out \o st'.ret
    /\ lastRet' = st'.ret
    /\ lastBuf' = n
    /\ minBuf' = Min(minBuf, n)
    /\ doneBefore' = StreamDone(st)
    /\ calls' = calls + 1
    /\ UNCHANGED <<content, kind, start_line, end_line, initial_line, uEager,
                   uPerRead>>
    /\ UNCHANGED <<partVars, splitVars, mapVars, extVars, batchVars, phaseVars, execVars, reqVars, estVars, metaVars, pfVars, taskVars, ctxVars, retryVars, cacheVars>>

NextStream == \E n \in MinBuf..MaxBuf : Read(n)

SpecStream == InitStream /\ [][NextStream]_vars

\* ------------------------------------- byte-range partition, one worker each
PartMaxLines == 3
PartMaxLineLen == 2
MaxWorkers == 4

PartLineLens == UNION {[1..n -> 1..PartMaxLineLen] : n \in 1..PartMaxLines}

\* The boundaries 0 = c0 <= c1 <= ... <= ck = max_bytes of k chunks.
CutSeqs(max_bytes, k) ==
    {c \in [1..(k + 1) -> 0..max_bytes] :
        /\ c[1] = 0
        /\ c[k + 1] = max_bytes
        /\ \A i \in 1..k : c[i] <= c[i + 1]}

\* No stream is being read through the wrappers.
StreamIdle ==
    /\ kind = "Line"
    /\ start_line = 0
    /\ end_line = 0
    /\ initial_line = 1
    /\ st = NewStream(<< >>, 1, FALSE)
    /\ out = << >>
    /\ lastRet = << >>
    /\ lastBuf = 0
    /\ minBuf = MaxBuf
    /\ doneBefore = FALSE
    /\ calls = 0

\* The lines of bytes, each with its newline (a last line may lack one).
RECURSIVE SplitLines(_)
SplitLines(bytes) ==
    IF bytes = << >> THEN << >>
    ELSE LET nl == FindNewline(bytes, 0)
             e  == IF nl = -1 THEN Len(bytes) ELSE nl + 1
         IN  <<Bytes(bytes, 0, e)>> \o SplitLines(Bytes(bytes, e, Len(bytes)))

\* std::string's operator<.
RECURSIVE LexLess(_, _)
LexLess(a, b) ==
    IF b = << >> THEN FALSE
    ELSE IF a = << >> THEN TRUE
    ELSE IF a[1] # b[1] THEN a[1] < b[1]
    ELSE LexLess(Tail(a), Tail(b))

RECURSIVE InsertLine(_, _)
InsertLine(sorted, x) ==
    IF sorted = << >> THEN <<x>>
    ELSE IF LexLess(x, sorted[1]) THEN <<x>> \o sorted
    ELSE <<sorted[1]>> \o InsertLine(Tail(sorted), x)

\* std::sort of a vector of lines.
RECURSIVE SortLines(_)
SortLines(lines) ==
    IF lines = << >> THEN << >>
    ELSE InsertLine(SortLines(Tail(lines)), lines[1])

\* while (!stream->done()) { read; append }: everything a stream returns.
RECURSIVE Drain(_)
Drain(s) ==
    IF s.udone THEN << >>
    ELSE LET r == UnderlyingRead(s) IN r.rbuf \o Drain(r)

\* The sequential read of the whole archive, its lines sorted.
ReferenceLines ==
    SortLines(SplitLines(Drain(LineBytesOpen(content, 0, Len(content), uEager))))

RECURSIVE ConcatChunks(_, _)
ConcatChunks(c, i) == IF i = 0 THEN << >> ELSE ConcatChunks(c, i - 1) \o c[i]

\* Faulty streams that share one cursor: a read() moves every stream's position.
PartReadSharedCursor(ws, i) ==
    LET r == UnderlyingRead(ws[i]) IN
    [j \in DOMAIN ws |-> IF j = i THEN r ELSE [ws[j] EXCEPT !.upos = r.upos]]

\* stream->read() of worker i: streams on one Reader are independent, each
\* owning its position; the Reader is not changed.
PartRead(ws, i) == [ws EXCEPT ![i] = UnderlyingRead(ws[i])]

InitPartition ==
    /\ \E lens \in PartLineLens : content = TextOf(lens, Len(lens))
    /\ uEager \in BOOLEAN
    /\ uPerRead \in 1..MaxCoalesce
    /\ num_workers \in 1..MaxWorkers
    /\ cuts \in CutSeqs(Len(content), num_workers)
    /\ wstream = [i \in 1..num_workers |-> LineBytesOpen(<< >>, 0, 0, FALSE)]
    /\ wpc = [i \in 1..num_workers |-> "start"]
    /\ chunks = [i \in 1..num_workers |-> << >>]
    /\ reads = [i \in 1..num_workers |-> << >>]
    /\ overlap = FALSE
    /\ joined = FALSE
    /\ worker_lines = << >>
    /\ StreamIdle
    /\ SplitIdle
    /\ MapperIdle
    /\ ExtractIdle
    /\ BatchIdle
    /\ PhasesIdle
    /\ ExecutorIdle
    /\ RequestIdle
    /\ EstimateIdle
    /\ MetadataIdle
    /\ PlainIterIdle
    /\ ExecuteTaskIdle
    /\ ContextIdle
    /\ RetryIdle
    /\ CacheIdle

MidStream(j) == wpc[j] = "loop" /\ chunks[j] # << >> /\ ~wstream[j].udone

\* Worker i opens its stream on [start, end).
WorkerOpen(i) ==
    /\ wpc[i] = "start"
    /\ wstream' = [wstream EXCEPT
                      ![i] = LineBytesOpen(content, cuts[i], cuts[i + 1], uEager)]
    /\ wpc' = [wpc EXCEPT ![i] = "loop"]
    /\ UNCHANGED <<num_workers, cuts, chunks, reads, overlap, joined, worker_lines>>
    /\ UNCHANGED <<streamVars, splitVars, mapVars, extVars, batchVars, phaseVars, execVars, reqVars, estVars, metaVars, pfVars, taskVars, ctxVars, retryVars, cacheVars>>

\* Worker i: one pass of while (!stream->done()) { br = read(); append br bytes }.
WorkerRead(i) ==
    /\ wpc[i] = "loop"
    /\ ~wstream[i].udone
    /\ wstream' = PartRead(wstream, i)
    /\ chunks' = [chunks EXCEPT ![i] = @ \o wstream'[i].rbuf]
    /\ reads' = [reads EXCEPT
                    ![i] = IF wstream'[i].rbuf = << >> THEN @
                           ELSE Append(@, wstream'[i].rbuf)]
    /\ overlap' = (overlap \/ \E j \in 1..num_workers : j # i /\ MidStream(j))
    /\ UNCHANGED <<num_workers, cuts, wpc, joined, worker_lines>>
    /\ UNCHANGED <<streamVars, splitVars, mapVars, extVars, batchVars, phaseVars, execVars, reqVars, estVars, metaVars, pfVars, taskVars, ctxVars, retryVars, cacheVars>>

\* Worker i finds its stream done() and returns.
WorkerExit(i) ==
    /\ wpc[i] = "loop"
    /\ wstream[i].udone
    /\ wpc' = [wpc EXCEPT ![i] = "done"]
    /\ UNCHANGED <<num_workers, cuts, wstream, chunks, reads, overlap, joined,
                   worker_lines>>
    /\ UNCHANGED <<streamVars, splitVars, mapVars, extVars, batchVars, phaseVars, execVars, reqVars, estVars, metaVars, pfVars, taskVars, ctxVars, retryVars, cacheVars>>

\* The main thread joins every worker, splits the chunks into lines and sorts.
Join ==
    /\ ~joined
    /\ \A i \in 1..num_workers : wpc[i] = "done"
    /\ joined' = TRUE
    /\ worker_lines' = SortLines(SplitLines(ConcatChunks(chunks, num_workers)))
    /\ UNCHANGED <<num_workers, cuts, wstream, wpc, chunks, reads, overlap>>
    /\ UNCHANGED <<streamVars, splitVars, mapVars, extVars, batchVars, phaseVars, execVars, reqVars, estVars, metaVars, pfVars, taskVars, ctxVars, retryVars, cacheVars>>

NextPartition ==
    \/ \E i \in 1..num_workers : WorkerOpen(i)
    \/ \E i \in 1..num_workers : WorkerRead(i)
    \/ \E i \in 1..num_workers : WorkerExit(i)
    \/ Join

SpecPartition == InitPartition /\ [][NextPartition]_vars

\* ------------------------------------------------------ the split driver
MaxFiles == 2
MaxFileLines == 2
HashMod == 65536

\* A line of an input file, as the validator and the event parser see it:
\* valid is json_trim_and_validate(...) && trimmed_length > 8; id, pid, tid
\* are the line's integer members, -1 where it has none.
Delimiter == [valid |-> FALSE, id |-> -1, pid |-> -1, tid |-> -1]

Event(i, p, t) == [valid |-> TRUE, id |-> i, pid |-> p, tid |-> t]

LineKinds == {Delimiter, Event(-1, 1, 1), Event(0, 2, 1), Event(0, 1, 2)}

FileLines == UNION {[1..n -> LineKinds] : n \in 0..MaxFileLines}

\* An input file: plain (.pfw) or compressed with an index (.pfw.gz);
\* readable is whether phase 1 can read or index it.
InputFiles == [lines : FileLines, plain : BOOLEAN, readable : BOOLEAN]

NoReader == (content = << >>) /\ (uEager = FALSE) /\ (uPerRead = 1)

\* EventId::is_valid
is_valid(event) == event.id >= 0

\* EventId::operator<
EventLess(a, b) ==
    IF a.id # b.id THEN a.id < b.id
    ELSE IF a.pid # b.pid THEN a.pid < b.pid
    ELSE a.tid < b.tid

RECURSIVE InsertEvent(_, _)
InsertEvent(sorted, x) ==
    IF sorted = << >> THEN <<x>>
    ELSE IF EventLess(x, sorted[1]) THEN <<x>> \o sorted
    ELSE <<sorted[1]>> \o InsertEvent(Tail(sorted), x)

\* std::sort(events.begin(), events.end())
RECURSIVE SortEvents(_)
SortEvents(events) ==
    IF events = << >> THEN << >>
    ELSE InsertEvent(SortEvents(Tail(events)), events[1])

\* EventIdCollector::process: the events list after one line.
EventIdCollector_process(events, line) ==
    IF ~line.valid THEN events
    ELSE LET event == [id |-> line.id, pid |-> line.pid, tid |-> line.tid] IN
         IF is_valid(event) THEN Append(events, event) ELSE events

\* The collector fed lines[from..to].
RECURSIVE CollectLines(_, _, _, _)
CollectLines(events, lines, from, to) ==
    IF from > to \/ from > Len(lines) THEN events
    ELSE CollectLines(EventIdCollector_process(events, lines[from]), lines,
                      from + 1, to)

\* MetadataCollectorUtility::process: the file's metadata (plain stands for
\* an empty idx_path); a file that cannot be read, or a compressed file
\* without lines, is reported with success = false.
MetadataCollector_process(file) ==
    IF ~file.readable \/ (~file.plain /\ Len(file.lines) = 0)
    THEN [success |-> FALSE, plain |-> file.plain, start_line |-> 0,
          end_line |-> 0]
    ELSE [success |-> TRUE, plain |-> file.plain, start_line |-> 1,
          end_line |-> Len(file.lines)]

\* The loop of EventCollectorFromMetadata::process over the files from f on;
\* a plain file that cannot be opened is skipped with a warning.
RECURSIVE CollectFromFiles(_, _, _, _)
CollectFromFiles(events, metadata, f, cannot_open) ==
    IF f > Len(metadata) THEN events
    ELSE LET file == metadata[f] IN
         IF ~file.success \/ (file.plain /\ f = cannot_open)
         THEN CollectFromFiles(events, metadata, f + 1, cannot_open)
         ELSE CollectFromFiles(
                  CollectLines(events, files[f].lines, file.start_line,
                               file.end_line),
                  metadata, f + 1, cannot_open)

\* A faulty collector that leaves the events in file order.
EventCollectorFromMetadata_unsorted(metadata, cannot_open) ==
    CollectFromFiles(<< >>, metadata, 1, cannot_open)

EventCollectorFromMetadata_process(metadata, cannot_open) ==
    SortEvents(CollectFromFiles(<< >>, metadata, 1, cannot_open))

\* EventHasher::process: a running hash over every event's id, pid, tid, in
\* order, of HashMod values.
RECURSIVE EventHasher_fold(_, _, _)
EventHasher_fold(h, events, k) ==
    IF k > Len(events) THEN h
    ELSE LET e  == events[k]
             h1 == (h * 31 + e.id + 2) % HashMod
             h2 == (h1 * 31 + e.pid + 2) % HashMod
             h3 == (h2 * 31 + e.tid + 2) % HashMod
         IN  EventHasher_fold(h3, events, k + 1)

EventHasher_process(events) == EventHasher_fold(7, events, 1)

\* Every line the mapper has to place, in input-file order: <<file, line>>
\* for the lines start_line..end_line of each file whose metadata succeeded.
RECURSIVE LinesToPlace(_, _)
LinesToPlace(metadata, f) ==
    IF f > Len(metadata) THEN << >>
    ELSE (IF metadata[f].success
          THEN [k \in 1..(metadata[f].end_line - metadata[f].start_line + 1) |->
                   <<f, metadata[f].start_line + k - 1>>]
          ELSE << >>) \o LinesToPlace(metadata, f + 1)

\* The chunk specs of the placed lines g[from..to]: one spec per file, with
\* its line range.
RECURSIVE SpecsOf(_, _, _)
SpecsOf(g, from, to) ==
    IF from > to THEN << >>
    ELSE LET f    == g[from][1]
             last == CHOOSE k \in from..to :
                         /\ \A j \in from..k : g[j][1] = f
                         /\ (k = to \/ g[k + 1][1] # f)
         IN  <<[file |-> f, start_line |-> g[from][2], end_line |-> g[last][2]]>>
             \o SpecsOf(g, last + 1, to)

\* The manifests that cut g after the positions in cutset.
RECURSIVE ManifestsAt(_, _, _)
ManifestsAt(g, from, cutset) ==
    IF from > Len(g) THEN << >>
    ELSE LET to == IF \E c \in cutset : c >= from
                   THEN CHOOSE c \in cutset :
                            c >= from /\ \A d \in cutset : d >= from => c <= d
                   ELSE Len(g)
         IN  <<[specs |-> SpecsOf(g, from, to)]>> \o ManifestsAt(g, to + 1, cutset)

\* ChunkManifestMapper::process, by its contract: the manifests are in input
\* order, none is empty, and each file's line ranges cover [start_line,
\* end_line] without gap or overlap.
ManifestMapper_outputs(metadata) ==
    LET g == LinesToPlace(metadata, 1) IN
    {ManifestsAt(g, 1, cutset) : cutset \in SUBSET (1..(Len(g) - 1))}

\* The lines the extractor keeps of one spec's line range, trimmed.
RECURSIVE KeptLines(_, _, _)
KeptLines(lines, from, to) ==
    IF from > to \/ from > Len(lines) THEN << >>
    ELSE (IF lines[from].valid THEN <<lines[from]>> ELSE << >>) \o
         KeptLines(lines, from + 1, to)

RECURSIVE KeptOfSpecs(_, _)
KeptOfSpecs(specs, k) ==
    IF k > Len(specs) THEN << >>
    ELSE KeptLines(files[specs[k].file].lines, specs[k].start_line,
                   specs[k].end_line) \o KeptOfSpecs(specs, k + 1)

NoResult(i) ==
    [ready |-> FALSE, chunk_index |-> i, success |-> FALSE, events |-> 0,
     written |-> << >>, event_ids |-> << >>]

\* ChunkExtractorUtility::process: the task's result; written is the events
\* of the chunk file between "[" and "]", event_ids the EventIds parsed from
\* the kept events.
extract_and_write(chunk_index, manifest, fopen_ok) ==
    IF ~fopen_ok THEN [NoResult(chunk_index) EXCEPT !.ready = TRUE]
    ELSE LET kept == KeptOfSpecs(manifest.specs, 1) IN
         [ready |-> TRUE, chunk_index |-> chunk_index, success |-> TRUE,
          events |-> Len(kept), written |-> kept,
          event_ids |-> CollectLines(<< >>, kept, 1, Len(kept))]

RECURSIVE InsertResult(_, _)
InsertResult(sorted, x) ==
    IF sorted = << >> THEN <<x>>
    ELSE IF x.chunk_index < sorted[1].chunk_index THEN <<x>> \o sorted
    ELSE <<sorted[1]>> \o InsertResult(Tail(sorted), x)

\* A faulty batch processor that returns the results in the order in which
\* the tasks completed.
BatchProcessor_as_completed(fs, k) ==
    [j \in 1..k |-> fs[completed[j]]]

\* BatchProcessor::process, once every task ran: the futures' values in
\* input order, sorted with the chunk_index comparator.
RECURSIVE BatchProcessor_sorted(_, _)
BatchProcessor_sorted(fs, k) ==
    IF k = 0 THEN << >>
    ELSE InsertResult(BatchProcessor_sorted(fs, k - 1), fs[k])

RECURSIVE GatherEvents(_, _)
GatherEvents(chunks_, k) ==
    IF k > Len(chunks_) THEN << >>
    ELSE chunks_[k].event_ids \o GatherEvents(chunks_, k + 1)

\* A faulty verifier that hashes the output events in the order gathered.
ChunkVerifier_unsorted(chunks_, metadata, cannot_open) ==
    LET input_hash    == EventHasher_process(
                             EventCollectorFromMetadata_process(metadata,
                                                                cannot_open))
        output_hash   == EventHasher_process(GatherEvents(chunks_, 1))
    IN  [ran |-> TRUE, passed |-> input_hash = output_hash,
         input_hash |-> input_hash, output_hash |-> output_hash]

\* ChunkVerifier::process
ChunkVerifier_process(chunks_, metadata, cannot_open) ==
    LET input_hash    == EventHasher_process(
                             EventCollectorFromMetadata_process(metadata,
                                                                cannot_open))
        output_events == SortEvents(GatherEvents(chunks_, 1))
        output_hash   == EventHasher_process(output_events)
    IN  [ran |-> TRUE, passed |-> input_hash = output_hash,
         input_hash |-> input_hash, output_hash |-> output_hash]

InitSplit ==
    /\ \E n \in 0..MaxFiles : files \in [1..n -> InputFiles]
    /\ verify \in BOOLEAN
    /\ dpc = "metadata"
    /\ all_metadata = << >>
    /\ manifests = << >>
    /\ futures = << >>
    /\ results = << >>
    /\ successful_chunks = 0
    /\ unopened = 0
    /\ verify_result = NoVerification
    /\ exit_code = -1
    /\ NoReader
    /\ StreamIdle
    /\ PartitionIdle
    /\ MapperIdle
    /\ ExtractIdle
    /\ BatchIdle
    /\ PhasesIdle
    /\ ExecutorIdle
    /\ RequestIdle
    /\ EstimateIdle
    /\ MetadataIdle
    /\ PlainIterIdle
    /\ ExecuteTaskIdle
    /\ ContextIdle
    /\ RetryIdle
    /\ CacheIdle

\* Phase 1: metadata of every file of the directory; main returns 1 when
\* there is no file or no file succeeded.
CollectMetadata ==
    /\ dpc = "metadata"
    /\ all_metadata' = [f \in 1..Len(files) |-> MetadataCollector_process(files[f])]
    /\ LET successful_files ==
               Cardinality({f \in 1..Len(files) : all_metadata'[f].success})
       IN  IF Len(files) = 0 \/ successful_files = 0
           THEN dpc' = "exited" /\ exit_code' = 1
           ELSE dpc' = "map" /\ exit_code' = exit_code
    /\ UNCHANGED <<files, verify, manifests, futures, results, successful_chunks,
                   unopened, verify_result>>
    /\ UNCHANGED <<streamVars, partVars, mapVars, extVars, batchVars, phaseVars, execVars, reqVars, estVars, metaVars, pfVars, taskVars, ctxVars, retryVars, cacheVars>>

\* Phase 2: the chunk manifests; main returns 1 when there is none.
MapChunks ==
    /\ dpc = "map"
    /\ manifests' \in ManifestMapper_outputs(all_metadata)
    /\ IF manifests' = << >>
       THEN dpc' = "exited" /\ exit_code' = 1 /\ futures' = futures
       ELSE /\ dpc' = "extract"
            /\ exit_code' = exit_code
            /\ futures' = [i \in 1..Len(manifests') |-> NoResult(i)]
    /\ UNCHANGED <<files, verify, all_metadata, results, successful_chunks,
                   unopened, verify_result>>
    /\ UNCHANGED <<streamVars, partVars, mapVars, extVars, batchVars, phaseVars, execVars, reqVars, estVars, metaVars, pfVars, taskVars, ctxVars, retryVars, cacheVars>>

\* Phase 3: the extraction task of chunk i runs; its output file may fail to open.
ExtractChunk(i) ==
    /\ dpc = "extract"
    /\ ~futures[i].ready
    /\ \E fopen_ok \in BOOLEAN :
          futures' = [futures EXCEPT
                         ![i] = extract_and_write(i, manifests[i], fopen_ok)]
    /\ UNCHANGED <<files, verify, dpc, all_metadata, manifests, results,
                   successful_chunks, unopened, verify_result, exit_code>>
    /\ UNCHANGED <<streamVars, partVars, mapVars, extVars, batchVars, phaseVars, execVars, reqVars, estVars, metaVars, pfVars, taskVars, ctxVars, retryVars, cacheVars>>

\* main gets the sorted results and counts the successful chunks.
GatherResults ==
    /\ dpc = "extract"
    /\ \A i \in 1..Len(futures) : futures[i].ready
    /\ results' = BatchProcessor_sorted(futures, Len(futures))
    /\ successful_chunks' =
           Cardinality({i \in 1..Len(results') : results'[i].success})
    /\ dpc' = IF verify THEN "verify" ELSE "return"
    /\ UNCHANGED <<files, verify, all_metadata, manifests, futures, unopened,
                   verify_result, exit_code>>
    /\ UNCHANGED <<streamVars, partVars, mapVars, extVars, batchVars, phaseVars, execVars, reqVars, estVars, metaVars, pfVars, taskVars, ctxVars, retryVars, cacheVars>>

\* if (verify): the verifier runs and main prints PASSED or FAILED.
Verify ==
    /\ dpc = "verify"
    /\ \E cannot_open \in
           {0} \cup {f \in 1..Len(files) :
                        all_metadata[f].success /\ all_metadata[f].plain} :
          /\ unopened' = cannot_open
          /\ verify_result' = ChunkVerifier_process(results, all_metadata,
                                                    cannot_open)
    /\ dpc' = "return"
    /\ UNCHANGED <<files, verify, all_metadata, manifests, futures, results,
                   successful_chunks, exit_code>>
    /\ UNCHANGED <<streamVars, partVars, mapVars, extVars, batchVars, phaseVars, execVars, reqVars, estVars, metaVars, pfVars, taskVars, ctxVars, retryVars, cacheVars>>

\* return successful_chunks == results.size() ? 0 : 1;
Return ==
    /\ dpc = "return"
    /\ exit_code' = IF successful_chunks = Len(results) THEN 0 ELSE 1
    /\ dpc' = "exited"
    /\ UNCHANGED <<files, verify, all_metadata, manifests, futures, results,
                   successful_chunks, unopened, verify_result>>
    /\ UNCHANGED <<streamVars, partVars, mapVars, extVars, batchVars, phaseVars, execVars, reqVars, estVars, metaVars, pfVars, taskVars, ctxVars, retryVars, cacheVars>>

NextSplit ==
    \/ CollectMetadata
    \/ MapChunks
    \/ \E i \in 1..Len(futures) : ExtractChunk(i)
    \/ GatherResults
    \/ Verify
    \/ Return

SpecSplit == InitSplit /\ [][NextSplit]_vars

\* ------------------------------------------------- the manifest mapper
MaxMapFiles == 2
MaxMapLines == 3
MaxMapBytes == 4
MaxTarget == 3

Max(a, b) == IF a > b THEN a ELSE b

\* Sizes are counted in a unit that every valid_events of the model divides,
\* so that size_mb / valid_events is exact.
RECURSIVE Factorial(_)
Factorial(n) == IF n <= 1 THEN 1 ELSE n * Factorial(n - 1)

SizeScale == Factorial(MaxMapLines)

\* MetadataCollectorUtility::process for a file of total_lines lines, of
\* which valid_lines are events of valid_bytes bytes in all, and of
\* file_size bytes on disk: a compressed file's events are estimated as its
\* lines but two and its size is the size on disk; a plain file's events are
\* counted and its size is the bytes of its events.
MetadataOf(plain, readable, total_lines, valid_lines, valid_bytes, file_size) ==
    IF ~readable \/ (~plain /\ total_lines = 0)
    THEN [success |-> FALSE, plain |-> plain, size_mb |-> 0, start_line |-> 0,
          end_line |-> 0, valid_events |-> 0, size_per_line |-> 0]
    ELSE LET valid_events == IF plain THEN valid_lines
                             ELSE IF total_lines > 2 THEN total_lines - 2 ELSE 0
             size_mb == SizeScale * (IF plain THEN valid_bytes ELSE file_size)
         IN  [success |-> TRUE, plain |-> plain, size_mb |-> size_mb,
              start_line |-> 1, end_line |-> total_lines,
              valid_events |-> valid_events,
              size_per_line |-> IF valid_events > 0
                                THEN size_mb \div valid_events ELSE 0]

\* The metadata records the driver can pass to the mapper.
MapperInputs ==
    {MetadataOf(plain, readable, total_lines, valid_lines, valid_bytes,
                file_size) :
        plain \in BOOLEAN, readable \in BOOLEAN, total_lines \in 0..MaxMapLines,
        valid_lines \in 0..MaxMapLines, valid_bytes \in 0..MaxMapBytes,
        file_size \in 1..MaxMapBytes}

\* A record a file can have: the events are lines of the file, every event
\* has a byte, no event no byte.
CanPass(meta) ==
    meta.success /\ meta.plain =>
        /\ meta.valid_events <= meta.end_line
        /\ meta.size_mb >= SizeScale * meta.valid_events
        /\ (meta.valid_events = 0 => meta.size_mb = 0)

\* std::round(a / b) for a >= 0 and b > 0: halves round away from zero.
RoundDiv(a, b) == (2 * a + b) \div (2 * b)

\* What r / 0.0, rounded and converted to a line count, can come to.
DivideByZeroOutcomes == {0, SIZE_MAX}

\* A faulty count that is not clamped from below.
LinesToTakeUnclamped(r, size_per_line, remaining_lines, by_zero) ==
    LET q == IF size_per_line = 0 THEN by_zero ELSE r \div size_per_line
    IN  Min(q, remaining_lines)

\* round(r / size_per_line) clamped to [1, remaining_lines].
LinesToTake(r, size_per_line, remaining_lines, by_zero) ==
    LET q == IF size_per_line = 0 THEN by_zero
             ELSE RoundDiv(r, size_per_line)
    IN  Max(1, Min(q, remaining_lines))

\* A faulty spec whose end_line is the line after its last line.
SplitSpecExclusiveEnd(file, current, lines, size_per_line) ==
    [file |-> file, start_line |-> current, end_line |-> current + lines,
     size_mb |-> lines * size_per_line]

\* The spec of the lines taken from a file that is split.
SplitSpec(file, current, lines, size_per_line) ==
    [file |-> file, start_line |-> current, end_line |-> current + lines - 1,
     size_mb |-> lines * size_per_line]

add_spec(manifest, spec) ==
    [specs |-> Append(manifest.specs, spec),
     total_size_mb |-> manifest.total_size_mb + spec.size_mb]

InitMapper ==
    /\ \E n \in 1..MaxMapFiles :
          file_metadata \in {m \in [1..n -> MapperInputs] :
                                \A f \in 1..n : CanPass(m[f])}
    /\ target_chunk_size_mb \in {SizeScale * t : t \in 1..MaxTarget}
    /\ mpc = "file"
    /\ file_idx = 1
    /\ current_line = 0
    /\ remaining_size = 0
    /\ current_manifest = EmptyManifest
    /\ mapped = << >>
    /\ last_take = NoTake
    /\ NoReader
    /\ StreamIdle
    /\ PartitionIdle
    /\ SplitIdle
    /\ ExtractIdle
    /\ BatchIdle
    /\ PhasesIdle
    /\ ExecutorIdle
    /\ RequestIdle
    /\ EstimateIdle
    /\ MetadataIdle
    /\ PlainIterIdle
    /\ ExecuteTaskIdle
    /\ ContextIdle
    /\ RetryIdle
    /\ CacheIdle

\* A file whose metadata failed, or without lines, gets no spec.
MapperSkipFile ==
    /\ mpc = "file"
    /\ file_idx <= Len(file_metadata)
    /\ LET file == file_metadata[file_idx] IN
       ~file.success \/ file.end_line < file.start_line
    /\ file_idx' = file_idx + 1
    /\ UNCHANGED <<file_metadata, target_chunk_size_mb, mpc, current_line,
                   remaining_size, current_manifest, mapped, last_take>>
    /\ UNCHANGED <<streamVars, partVars, splitVars, extVars, batchVars, phaseVars, execVars, reqVars, estVars, metaVars, pfVars, taskVars, ctxVars, retryVars, cacheVars>>

MapperBeginFile ==
    /\ mpc = "file"
    /\ file_idx <= Len(file_metadata)
    /\ LET file == file_metadata[file_idx] IN
       /\ file.success
       /\ file.end_line >= file.start_line
       /\ current_line' = file.start_line
       /\ remaining_size' = file.size_mb
    /\ mpc' = "place"
    /\ UNCHANGED <<file_metadata, target_chunk_size_mb, file_idx,
                   current_manifest, mapped, last_take>>
    /\ UNCHANGED <<streamVars, partVars, splitVars, extVars, batchVars, phaseVars, execVars, reqVars, estVars, metaVars, pfVars, taskVars, ctxVars, retryVars, cacheVars>>

\* The rest of the file fits the remaining capacity r of the chunk: one spec
\* takes it; a chunk that is full is emitted.
MapperTakeRest ==
    /\ mpc = "place"
    /\ LET file == file_metadata[file_idx]
           r    == target_chunk_size_mb - current_manifest.total_size_mb
           spec == [file |-> file_idx, start_line |-> current_line,
                    end_line |-> file.end_line,
                    size_mb |-> Max(remaining_size, 0)]
           filled == add_spec(current_manifest, spec)
       IN  /\ remaining_size <= r
           /\ last_take' = [taken |-> TRUE,
                            lines |-> file.end_line - current_line + 1,
                            remaining_lines |-> file.end_line - current_line + 1,
                            r |-> r, size_per_line |-> file.size_per_line,
                            split |-> FALSE]
           /\ IF filled.total_size_mb >= target_chunk_size_mb
              THEN /\ mapped' = Append(mapped, filled)
                   /\ current_manifest' = EmptyManifest
              ELSE /\ mapped' = mapped
                   /\ current_manifest' = filled
    /\ file_idx' = file_idx + 1
    /\ mpc' = "file"
    /\ UNCHANGED <<file_metadata, target_chunk_size_mb, current_line,
                   remaining_size>>
    /\ UNCHANGED <<streamVars, partVars, splitVars, extVars, batchVars, phaseVars, execVars, reqVars, estVars, metaVars, pfVars, taskVars, ctxVars, retryVars, cacheVars>>

\* The rest of the file overflows the chunk: a spec takes the lines that fit,
\* the chunk is emitted and the remainder goes to the next chunk.
MapperSplitFile ==
    /\ mpc = "place"
    /\ LET file == file_metadata[file_idx]
           r    == target_chunk_size_mb - current_manifest.total_size_mb
           remaining_lines == file.end_line - current_line + 1
       IN  /\ remaining_size > r
           /\ \E by_zero \in DivideByZeroOutcomes :
                 LET lines == LinesToTake(r, file.size_per_line,
                                          remaining_lines, by_zero)
                     spec  == SplitSpec(file_idx, current_line, lines,
                                        file.size_per_line)
                 IN  /\ last_take' = [taken |-> TRUE, lines |-> lines,
                                      remaining_lines |-> remaining_lines,
                                      r |-> r,
                                      size_per_line |-> file.size_per_line,
                                      split |-> TRUE]
                     /\ mapped' = Append(mapped,
                                         add_spec(current_manifest, spec))
                     /\ current_manifest' = EmptyManifest
                     /\ current_line' = current_line + lines
                     /\ remaining_size' = remaining_size - spec.size_mb
                     /\ IF current_line' > file.end_line
                        THEN file_idx' = file_idx + 1 /\ mpc' = "file"
                        ELSE file_idx' = file_idx /\ mpc' = mpc
    /\ UNCHANGED <<file_metadata, target_chunk_size_mb>>
    /\ UNCHANGED <<streamVars, partVars, splitVars, extVars, batchVars, phaseVars, execVars, reqVars, estVars, metaVars, pfVars, taskVars, ctxVars, retryVars, cacheVars>>

\* After the last file, a chunk that holds specs is emitted.
MapperFinish ==
    /\ mpc = "file"
    /\ file_idx > Len(file_metadata)
    /\ mapped' = IF current_manifest.specs # << >>
                 THEN Append(mapped, current_manifest) ELSE mapped
    /\ current_manifest' = EmptyManifest
    /\ mpc' = "done"
    /\ UNCHANGED <<file_metadata, target_chunk_size_mb, file_idx, current_line,
                   remaining_size, last_take>>
    /\ UNCHANGED <<streamVars, partVars, splitVars, extVars, batchVars, phaseVars, execVars, reqVars, estVars, metaVars, pfVars, taskVars, ctxVars, retryVars, cacheVars>>

NextMapper ==
    \/ MapperSkipFile
    \/ MapperBeginFile
    \/ MapperTakeRest
    \/ MapperSplitFile
    \/ MapperFinish

SpecMapper == InitMapper /\ [][NextMapper]_vars

\* -------------------------------------------------- the chunk extractor
MaxExtFiles == 2
MaxExtLines == 2
MaxChunkIndex == 2

\* Bytes of a trace line: a blank, a comma, the brackets of the JSON array,
\* the braces of a JSON object; every other byte is at least PAYLOAD.
SP == 1
COMMA == 2
LBRACKET == 3
RBRACKET == 4
LBRACE == 5
RBRACE == 6
PAYLOAD == 10

\* trimmed_length > 8
MinEventLength == 8

\* constexpr std::size_t BUFFER_SIZE of compress_output, in the model's bytes.
BUFFER_SIZE == 15

Repeat(b, n) == [k \in 1..n |-> b]

\* The line of one kind, without its newline; tag is the byte its payload
\* is made of.
RawLine(line_kind, tag) ==
    CASE line_kind = "delimiter" -> <<LBRACKET>>
      [] line_kind = "blank"     -> <<SP>>
      [] line_kind = "short"     ->
             <<LBRACE>> \o Repeat(tag, MinEventLength - 2) \o <<RBRACE>>
      [] line_kind = "event"     ->
             <<SP, LBRACE>> \o Repeat(tag, MinEventLength - 1)
                 \o <<RBRACE, COMMA>>
      [] line_kind = "garbage"   -> Repeat(tag, MinEventLength + 1)

ExtLineKinds == {"delimiter", "blank", "short", "event", "garbage"}

\* The lines of input file f, of the given kinds.
ExtFileLines(f, kinds) ==
    [k \in 1..Len(kinds) |-> RawLine(kinds[k], PAYLOAD * f + k)]

RECURSIVE StripLeading(_)
StripLeading(s) ==
    IF s # << >> /\ s[1] = SP THEN StripLeading(Tail(s)) ELSE s

RECURSIVE StripTrailing(_)
StripTrailing(s) ==
    IF s # << >> /\ s[Len(s)] = SP
    THEN StripTrailing(SubSeq(s, 1, Len(s) - 1)) ELSE s

\* json_trim_and_validate: the line without the whitespace around it and
\* without a trailing comma, and whether that is a complete JSON object.
json_trim_and_validate(data) ==
    LET stripped == StripTrailing(StripLeading(data))
        trimmed  == IF stripped # << >> /\ stripped[Len(stripped)] = COMMA
                    THEN StripTrailing(SubSeq(stripped, 1, Len(stripped) - 1))
                    ELSE stripped
        is_object ==
            /\ Len(trimmed) >= 2
            /\ trimmed[1] = LBRACE
            /\ trimmed[Len(trimmed)] = RBRACE
            /\ \A k \in 2..(Len(trimmed) - 1) : trimmed[k] >= PAYLOAD
    IN  [ok |-> is_object, trimmed |-> trimmed]

\* The body of the while loop of extract_and_write for one line: what it
\* writes to the output and what it adds to total_events.
WriteLine(line) ==
    LET v == json_trim_and_validate(line) IN
    IF v.ok /\ Len(v.trimmed) > MinEventLength
    THEN [written |-> v.trimmed \o <<NL>>, events |-> 1]
    ELSE [written |-> << >>, events |-> 0]

\* PlainFileLineIterator over [start_line, end_line], fed to the loop.
RECURSIVE WriteLines(_, _, _)
WriteLines(lines, from, to) ==
    IF from > to \/ from > Len(lines)
    THEN [written |-> << >>, events |-> 0]
    ELSE LET one  == WriteLine(lines[from])
             rest == WriteLines(lines, from + 1, to)
         IN  [written |-> one.written \o rest.written,
              events |-> one.events + rest.events]

\* The read loop of compress_output from offset pos: a read of less than
\* BUFFER_SIZE bytes sets eof and deflate gets Z_FINISH; a read of no byte
\* leaves the loop.
RECURSIVE compress_loop(_, _, _)
compress_loop(plain_bytes, pos, data) ==
    LET bytes_read == Min(BUFFER_SIZE, Len(plain_bytes) - pos) IN
    IF bytes_read = 0 THEN [data |-> data, finished |-> FALSE]
    ELSE LET eof  == pos + BUFFER_SIZE > Len(plain_bytes)
             next == data \o SubSeq(plain_bytes, pos + 1, pos + bytes_read)
         IN  IF eof THEN [data |-> next, finished |-> TRUE]
             ELSE compress_loop(plain_bytes, pos + bytes_read, next)

\* compress_output: its return value and the compressed file it leaves.
compress_output(plain_bytes, infile_ok, outfile_ok, deflate_init_ok) ==
    IF ~infile_ok \/ ~outfile_ok
    THEN [ret |-> FALSE,
          file |-> [NoCompressedFile EXCEPT !.exists = outfile_ok]]
    ELSE IF ~deflate_init_ok
    THEN [ret |-> FALSE, file |-> [NoCompressedFile EXCEPT !.exists = TRUE]]
    ELSE LET z == compress_loop(plain_bytes, 0, << >>) IN
         [ret |-> TRUE,
          file |-> [exists |-> TRUE, data |-> z.data, finished |-> z.finished]]

\* output_dir + "/" + app_name + "-" + std::to_string(chunk_index) + ".pfw"
OutputPath(chunk_index) == [chunk_index |-> chunk_index, ext |-> ".pfw"]

\* The manifests over the files: a spec per file, in file order, each over a
\* line range of its file.
ExtManifests(n, kinds) ==
    {m \in [1..n -> [file : 1..n, start_line : 1..MaxExtLines,
                     end_line : 1..MaxExtLines]] :
        \A k \in 1..n :
            /\ m[k].file = k
            /\ m[k].start_line <= m[k].end_line
            /\ m[k].end_line <= Len(kinds[k])}

InitExtract ==
    /\ BatchIdle
    /\ \E n \in 1..MaxExtFiles :
          \E kinds \in [1..n -> UNION {[1..l -> ExtLineKinds] :
                                          l \in 1..MaxExtLines}] :
              /\ src_files = [f \in 1..n |-> ExtFileLines(f, kinds[f])]
              /\ \E m \in ExtManifests(n, kinds) :
                    \E i \in 1..MaxChunkIndex : \E c \in BOOLEAN :
                        ext_input = [chunk_index |-> i, specs |-> m,
                                     compress |-> c]
    /\ epc = "open"
    /\ spec_idx = 1
    /\ output_file = NoFile
    /\ compressed_file = NoCompressedFile
    /\ total_events = 0
    /\ result = NoExtraction
    /\ failure = "none"
    /\ NoReader
    /\ StreamIdle
    /\ PartitionIdle
    /\ SplitIdle
    /\ MapperIdle
    /\ PhasesIdle
    /\ ExecutorIdle
    /\ RequestIdle
    /\ EstimateIdle
    /\ MetadataIdle
    /\ PlainIterIdle
    /\ ExecuteTaskIdle
    /\ ContextIdle
    /\ RetryIdle
    /\ CacheIdle

\* fopen(output_path, "w") fails: extract_and_write returns its result.
ExtractOpenFails ==
    /\ epc = "open"
    /\ result' = [chunk_index |-> ext_input.chunk_index,
                  output_path |-> OutputPath(ext_input.chunk_index),
                  events |-> 0, success |-> FALSE]
    /\ failure' = "fopen"
    /\ epc' = "done"
    /\ UNCHANGED <<src_files, ext_input, spec_idx, output_file,
                   compressed_file, total_events>>
    /\ UNCHANGED <<streamVars, partVars, splitVars, mapVars, batchVars, phaseVars, execVars, reqVars, estVars, metaVars, pfVars, taskVars, ctxVars, retryVars, cacheVars>>

\* The output file is open and "[\n" written; without a hash state the file
\* is closed and the result returned.
ExtractOpen ==
    /\ epc = "open"
    /\ \E hash_state_ok \in BOOLEAN :
          IF hash_state_ok
          THEN /\ output_file' = [exists |-> TRUE, open |-> TRUE,
                                  content |-> <<LBRACKET, NL>>]
               /\ epc' = "specs"
               /\ UNCHANGED <<result, failure>>
          ELSE /\ output_file' = [exists |-> TRUE, open |-> FALSE,
                                  content |-> <<LBRACKET, NL>>]
               /\ result' = [chunk_index |-> ext_input.chunk_index,
                             output_path |-> OutputPath(ext_input.chunk_index),
                             events |-> 0, success |-> FALSE]
               /\ failure' = "hash_state"
               /\ epc' = "done"
    /\ UNCHANGED <<src_files, ext_input, spec_idx, compressed_file,
                   total_events>>
    /\ UNCHANGED <<streamVars, partVars, splitVars, mapVars, batchVars, phaseVars, execVars, reqVars, estVars, metaVars, pfVars, taskVars, ctxVars, retryVars, cacheVars>>

\* One spec of the manifest: the kept lines of its range are written.
ExtractSpec ==
    /\ epc = "specs"
    /\ spec_idx <= Len(ext_input.specs)
    /\ LET spec == ext_input.specs[spec_idx]
           w    == WriteLines(src_files[spec.file], spec.start_line,
                              spec.end_line)
       IN  /\ output_file' = [output_file EXCEPT
                                 !.content = output_file.content \o w.written]
           /\ total_events' = total_events + w.events
    /\ spec_idx' = spec_idx + 1
    /\ UNCHANGED <<src_files, ext_input, epc, compressed_file, result, failure>>
    /\ UNCHANGED <<streamVars, partVars, splitVars, mapVars, batchVars, phaseVars, execVars, reqVars, estVars, metaVars, pfVars, taskVars, ctxVars, retryVars, cacheVars>>

\* The reader of a spec throws (its file cannot be opened): process catches
\* the exception and returns its own result.
ExtractSpecThrows ==
    /\ epc = "specs"
    /\ spec_idx <= Len(ext_input.specs)
    /\ result' = [chunk_index |-> ext_input.chunk_index,
                  output_path |-> OutputPath(ext_input.chunk_index),
                  events |-> 0, success |-> FALSE]
    /\ failure' = "reader"
    /\ epc' = "done"
    /\ UNCHANGED <<src_files, ext_input, spec_idx, output_file,
                   compressed_file, total_events>>
    /\ UNCHANGED <<streamVars, partVars, splitVars, mapVars, batchVars, phaseVars, execVars, reqVars, estVars, metaVars, pfVars, taskVars, ctxVars, retryVars, cacheVars>>

\* "\n]\n" is written and the output file closed.
ExtractClose ==
    /\ epc = "specs"
    /\ spec_idx > Len(ext_input.specs)
    /\ output_file' = [output_file EXCEPT
                          !.content = output_file.content \o <<NL, RBRACKET, NL>>,
                          !.open = FALSE]
    /\ epc' = "compress"
    /\ UNCHANGED <<src_files, ext_input, spec_idx, compressed_file,
                   total_events, result, failure>>
    /\ UNCHANGED <<streamVars, partVars, splitVars, mapVars, batchVars, phaseVars, execVars, reqVars, estVars, metaVars, pfVars, taskVars, ctxVars, retryVars, cacheVars>>

\* The compress step and the return of extract_and_write.
ExtractReturn ==
    /\ epc = "compress"
    /\ LET plain == [chunk_index |-> ext_input.chunk_index,
                     output_path |-> OutputPath(ext_input.chunk_index),
                     events |-> total_events, success |-> TRUE]
       IN
       IF ext_input.compress /\ total_events > 0
       THEN \E infile_ok, outfile_ok, deflate_init_ok \in BOOLEAN :
               LET c == compress_output(output_file.content, infile_ok,
                                        outfile_ok, deflate_init_ok)
               IN  /\ compressed_file' = c.file
                   /\ failure' = IF c.ret THEN "none" ELSE "compress"
                   /\ IF c.ret /\ c.file.exists
                      THEN /\ output_file' = NoFile
                           /\ result' = [plain EXCEPT
                                            !.output_path.ext = ".pfw.gz"]
                      ELSE /\ output_file' = output_file
                           /\ result' = plain
       ELSE /\ result' = plain
            /\ UNCHANGED <<output_file, compressed_file, failure>>
    /\ epc' = "done"
    /\ UNCHANGED <<src_files, ext_input, spec_idx, total_events>>
    /\ UNCHANGED <<streamVars, partVars, splitVars, mapVars, batchVars, phaseVars, execVars, reqVars, estVars, metaVars, pfVars, taskVars, ctxVars, retryVars, cacheVars>>

NextExtract ==
    \/ ExtractOpenFails
    \/ ExtractOpen
    \/ ExtractSpec
    \/ ExtractSpecThrows
    \/ ExtractClose
    \/ ExtractReturn

SpecExtract == InitExtract /\ [][NextExtract]_vars

\* ------------------------------------- the batch of extraction tasks
MaxBatch == 4

\* The value of a task's future before the task has run.
NoFuture(chunk_index) ==
    [ready |-> FALSE, chunk_index |-> chunk_index, success |-> FALSE]

\* main builds chunk_inputs from the manifests: item i carries chunk index i.
InitBatch ==
    /\ \E n \in 0..MaxBatch : items = [i \in 1..n |-> i]
    /\ bpc = "emit"
    /\ task_results = << >>
    /\ completed = << >>
    /\ gathered = << >>
    /\ batch_results = << >>
    /\ NoReader
    /\ StreamIdle
    /\ PartitionIdle
    /\ SplitIdle
    /\ MapperIdle
    /\ ExtractIdle
    /\ PhasesIdle
    /\ ExecutorIdle
    /\ RequestIdle
    /\ EstimateIdle
    /\ MetadataIdle
    /\ PlainIterIdle
    /\ ExecuteTaskIdle
    /\ ContextIdle
    /\ RetryIdle
    /\ CacheIdle

\* if (items.empty()) return {};
BatchReturnEmpty ==
    /\ bpc = "emit"
    /\ items = << >>
    /\ bpc' = "returned"
    /\ UNCHANGED <<items, task_results, completed, gathered, batch_results>>
    /\ UNCHANGED <<streamVars, partVars, splitVars, mapVars, extVars, phaseVars, execVars, reqVars, estVars, metaVars, pfVars, taskVars, ctxVars, retryVars, cacheVars>>

\* One task is emitted per item; the futures are kept in the items' order.
BatchEmit ==
    /\ bpc = "emit"
    /\ items # << >>
    /\ task_results' = [i \in 1..Len(items) |-> NoFuture(items[i])]
    /\ bpc' = "get"
    /\ UNCHANGED <<items, completed, gathered, batch_results>>
    /\ UNCHANGED <<streamVars, partVars, splitVars, mapVars, extVars, phaseVars, execVars, reqVars, estVars, metaVars, pfVars, taskVars, ctxVars, retryVars, cacheVars>>

\* The task of item i runs on a worker thread, at any time after it was
\* emitted; its result carries the item's chunk index whether or not the
\* extraction succeeded.
BatchTaskCompletes(i) ==
    /\ bpc \in {"get", "sort"}
    /\ ~task_results[i].ready
    /\ \E ok \in BOOLEAN :
          task_results' = [task_results EXCEPT
                              ![i] = [ready |-> TRUE,
                                      chunk_index |-> items[i],
                                      success |-> ok]]
    /\ completed' = Append(completed, i)
    /\ UNCHANGED <<items, bpc, gathered, batch_results>>
    /\ UNCHANGED <<streamVars, partVars, splitVars, mapVars, extVars, phaseVars, execVars, reqVars, estVars, metaVars, pfVars, taskVars, ctxVars, retryVars, cacheVars>>

\* results.push_back(future.get()): the next future in the items' order,
\* once its task has completed.
BatchGet ==
    /\ bpc = "get"
    /\ LET next == Len(gathered) + 1 IN
          /\ task_results[next].ready
          /\ gathered' = Append(gathered, task_results[next])
          /\ bpc' = IF next = Len(items) THEN "sort" ELSE "get"
    /\ UNCHANGED <<items, task_results, completed, batch_results>>
    /\ UNCHANGED <<streamVars, partVars, splitVars, mapVars, extVars, phaseVars, execVars, reqVars, estVars, metaVars, pfVars, taskVars, ctxVars, retryVars, cacheVars>>

\* std::sort with the chunk_index comparator, and return.
BatchSort ==
    /\ bpc = "sort"
    /\ batch_results' = BatchProcessor_sorted(gathered, Len(gathered))
    /\ bpc' = "returned"
    /\ UNCHANGED <<items, task_results, completed, gathered>>
    /\ UNCHANGED <<streamVars, partVars, splitVars, mapVars, extVars, phaseVars, execVars, reqVars, estVars, metaVars, pfVars, taskVars, ctxVars, retryVars, cacheVars>>

NextBatch ==
    \/ BatchReturnEmpty
    \/ BatchEmit
    \/ \E i \in 1..Len(task_results) : BatchTaskCompletes(i)
    \/ BatchGet
    \/ BatchSort

SpecBatch == InitBatch /\ [][NextBatch]_vars

\* ------------------------------- the driver's phases as parallel tasks
MaxThreads == 3
MaxDirFiles == 3

\* ExecutorFactory::create: the sequential executor for 0 or 1 threads, a
\* pool of num_threads workers otherwise.
ExecutorFactory_create(n) ==
    IF n = 0 \/ n = 1 THEN [sequential |-> TRUE, workers |-> 1]
    ELSE [sequential |-> FALSE, workers |-> n]

\* The workers free for the per-file tasks: the workflow task that emitted
\* them runs to completion on its own worker while it waits for them; the
\* sequential executor runs one task at a time.
TaskWorkers(n) ==
    LET e == ExecutorFactory_create(n) IN
    IF e.sequential THEN 1 ELSE e.workers - 1

Running == {i \in 1..Len(tasks) : tasks[i].state = "running"}

\* A faulty join that returns after the first future.
FirstFutureGot(count, n) == count >= 1

\* for (auto& future : futures) output.results.push_back(future.get());
AllFuturesGot(count, n) == count = n

InitPhases ==
    /\ num_threads \in 1..MaxThreads
    /\ dir_files \in 0..MaxDirFiles
    /\ phase = 0
    /\ ppc = "emit"
    /\ tasks = << >>
    /\ output_results = << >>
    /\ metadata_list = << >>
    /\ mapper_input = NotMapped
    /\ peak_running = 0
    /\ NoReader
    /\ StreamIdle
    /\ PartitionIdle
    /\ SplitIdle
    /\ MapperIdle
    /\ ExtractIdle
    /\ BatchIdle
    /\ ExecutorIdle
    /\ RequestIdle
    /\ EstimateIdle
    /\ MetadataIdle
    /\ PlainIterIdle
    /\ ExecuteTaskIdle
    /\ ContextIdle
    /\ RetryIdle
    /\ CacheIdle

\* DirectoryFileProcessor::process, steps 1 to 4: no file matched, or one
\* task emitted per file. Phase 0 and phase 1 run it on the same executor.
PhaseEmit ==
    /\ ppc = "emit"
    /\ IF dir_files = 0
       THEN ppc' = "return" /\ tasks' = << >>
       ELSE /\ ppc' = "wait"
            /\ tasks' = [i \in 1..dir_files |->
                            [state |-> "queued", success |-> FALSE]]
    /\ output_results' = << >>
    /\ UNCHANGED <<num_threads, dir_files, phase, metadata_list, mapper_input,
                   peak_running>>
    /\ UNCHANGED <<streamVars, partVars, splitVars, mapVars, extVars, batchVars, execVars, reqVars, estVars, metaVars, pfVars, taskVars, ctxVars, retryVars, cacheVars>>

\* A free worker pops the task of file i and starts executing it.
TaskStart(i) ==
    /\ ppc = "wait"
    /\ tasks[i].state = "queued"
    /\ Cardinality(Running) < TaskWorkers(num_threads)
    /\ tasks' = [tasks EXCEPT ![i].state = "running"]
    /\ peak_running' = Max(peak_running, Cardinality(Running) + 1)
    /\ UNCHANGED <<num_threads, dir_files, phase, ppc, output_results,
                   metadata_list, mapper_input>>
    /\ UNCHANGED <<streamVars, partVars, splitVars, mapVars, extVars, batchVars, execVars, reqVars, estVars, metaVars, pfVars, taskVars, ctxVars, retryVars, cacheVars>>

\* The task of file i returns its output, successful or not, and its promise
\* is fulfilled.
TaskFinish(i) ==
    /\ ppc = "wait"
    /\ tasks[i].state = "running"
    /\ \E ok \in BOOLEAN :
          tasks' = [tasks EXCEPT ![i] = [state |-> "done", success |-> ok]]
    /\ UNCHANGED <<num_threads, dir_files, phase, ppc, output_results,
                   metadata_list, mapper_input, peak_running>>
    /\ UNCHANGED <<streamVars, partVars, splitVars, mapVars, extVars, batchVars, execVars, reqVars, estVars, metaVars, pfVars, taskVars, ctxVars, retryVars, cacheVars>>

\* Step 5: the workflow gets the next future, in the files' order.
FutureGet ==
    /\ ppc = "wait"
    /\ LET next == Len(output_results) + 1 IN
          /\ next <= Len(tasks)
          /\ tasks[next].state = "done"
          /\ output_results' =
                 Append(output_results, [file |-> next,
                                         success |-> tasks[next].success])
          /\ ppc' = IF AllFuturesGot(next, Len(tasks)) THEN "return" ELSE "wait"
    /\ UNCHANGED <<num_threads, dir_files, phase, tasks, metadata_list,
                   mapper_input, peak_running>>
    /\ UNCHANGED <<streamVars, partVars, splitVars, mapVars, extVars, batchVars, execVars, reqVars, estVars, metaVars, pfVars, taskVars, ctxVars, retryVars, cacheVars>>

\* executor->execute returns to main: after phase 0 main counts the indexes
\* built and goes on to phase 1.
IndexPhaseReturns ==
    /\ ppc = "return"
    /\ phase = 0
    /\ phase' = 1
    /\ ppc' = "emit"
    /\ tasks' = << >>
    /\ output_results' = << >>
    /\ peak_running' = 0
    /\ UNCHANGED <<num_threads, dir_files, metadata_list, mapper_input>>
    /\ UNCHANGED <<streamVars, partVars, splitVars, mapVars, extVars, batchVars, execVars, reqVars, estVars, metaVars, pfVars, taskVars, ctxVars, retryVars, cacheVars>>

\* After phase 1 main returns 1 if there is no result or no successful file,
\* and keeps the results as all_metadata otherwise.
MetadataPhaseReturns ==
    /\ ppc = "return"
    /\ phase = 1
    /\ IF output_results = << >>
       THEN ppc' = "exited" /\ metadata_list' = metadata_list
       ELSE /\ metadata_list' = output_results
            /\ ppc' = IF \E i \in 1..Len(output_results) :
                              output_results[i].success
                      THEN "map" ELSE "exited"
    /\ UNCHANGED <<num_threads, dir_files, phase, tasks, output_results,
                   mapper_input, peak_running>>
    /\ UNCHANGED <<streamVars, partVars, splitVars, mapVars, extVars, batchVars, execVars, reqVars, estVars, metaVars, pfVars, taskVars, ctxVars, retryVars, cacheVars>>

\* Phase 2: the mapper task is started with the metadata list as its input.
MapperStart ==
    /\ ppc = "map"
    /\ phase' = 2
    /\ mapper_input' = [started |-> TRUE, metadata |-> metadata_list]
    /\ ppc' = "mapped"
    /\ UNCHANGED <<num_threads, dir_files, tasks, output_results,
                   metadata_list, peak_running>>
    /\ UNCHANGED <<streamVars, partVars, splitVars, mapVars, extVars, batchVars, execVars, reqVars, estVars, metaVars, pfVars, taskVars, ctxVars, retryVars, cacheVars>>

NextPhases ==
    \/ PhaseEmit
    \/ \E i \in 1..Len(tasks) : TaskStart(i)
    \/ \E i \in 1..Len(tasks) : TaskFinish(i)
    \/ FutureGet
    \/ IndexPhaseReturns
    \/ MetadataPhaseReturns
    \/ MapperStart

SpecPhases == InitPhases /\ [][NextPhases]_vars

\* ------------------------------------------------------- the executor
MaxExecThreads == 2
MaxTasks == 3

\* The tasks in the queue and the tasks executing on a worker.
QueuedTasks == {queue_[k] : k \in 1..Len(queue_)}

ExecutingTasks ==
    {worker_task[w] : w \in {v \in 1..Len(worker_pc) : worker_pc[v] = "execute"}}

\* What is queued and what is running when shutdown is first asked for.
ShutdownSnapshot ==
    IF at_shutdown.asked THEN at_shutdown
    ELSE [asked |-> TRUE, queued |-> QueuedTasks, running |-> ExecutingTasks]

\* A faulty shutdown that does not wait for the thread.
ThreadDetached(pc) == TRUE

\* thread.join(): returns once the worker thread has left worker_thread.
ThreadJoined(pc) == pc = "terminated"

\* Executor::Executor and Executor::start: num_threads_ workers are spawned.
InitExecutor ==
    /\ num_threads_ \in 1..MaxExecThreads
    /\ running_ = TRUE
    /\ shutdown_requested_ = FALSE
    /\ queue_ = << >>
    /\ queue_shutdown = FALSE
    /\ worker_pc = [w \in 1..num_threads_ |-> "check"]
    /\ worker_task = [w \in 1..num_threads_ |-> 0]
    /\ promise = << >>
    /\ tasks_started = {}
    /\ xpc = "started"
    /\ at_shutdown = NoShutdown
    /\ NoReader
    /\ StreamIdle
    /\ PartitionIdle
    /\ SplitIdle
    /\ MapperIdle
    /\ ExtractIdle
    /\ BatchIdle
    /\ PhasesIdle
    /\ RequestIdle
    /\ EstimateIdle
    /\ MetadataIdle
    /\ PlainIterIdle
    /\ ExecuteTaskIdle
    /\ ContextIdle
    /\ RetryIdle
    /\ CacheIdle

\* The scheduler pushes a task, its promise pending; a queue that was shut
\* down accepts no task.
Submit ==
    /\ xpc # "stopped"
    /\ ~queue_shutdown
    /\ Len(promise) < MaxTasks
    /\ promise' = Append(promise, "pending")
    /\ queue_' = Append(queue_, Len(promise) + 1)
    /\ UNCHANGED <<num_threads_, running_, shutdown_requested_, queue_shutdown,
                   worker_pc, worker_task, tasks_started, xpc, at_shutdown>>
    /\ UNCHANGED <<streamVars, partVars, splitVars, mapVars, extVars, batchVars,
                   phaseVars, reqVars, estVars, metaVars, pfVars, taskVars, ctxVars, retryVars, cacheVars>>

\* while (running_)
WorkerCheck(w) ==
    /\ worker_pc[w] = "check"
    /\ worker_pc' = [worker_pc EXCEPT
                        ![w] = IF running_ THEN "pop" ELSE "terminated"]
    /\ UNCHANGED <<num_threads_, running_, shutdown_requested_, queue_,
                   queue_shutdown, worker_task, promise, tasks_started, xpc,
                   at_shutdown>>
    /\ UNCHANGED <<streamVars, partVars, splitVars, mapVars, extVars, batchVars,
                   phaseVars, reqVars, estVars, metaVars, pfVars, taskVars, ctxVars, retryVars, cacheVars>>

\* queue_.pop(blocking): the head of the queue, or nothing once the queue is
\* shut down and empty; it blocks while the queue is empty and open.
WorkerPop(w) ==
    /\ worker_pc[w] = "pop"
    /\ \/ /\ queue_ # << >>
          /\ worker_task' = [worker_task EXCEPT ![w] = Head(queue_)]
          /\ queue_' = Tail(queue_)
          /\ tasks_started' = tasks_started \cup {Head(queue_)}
          /\ worker_pc' = [worker_pc EXCEPT ![w] = "execute"]
       \/ /\ queue_ = << >>
          /\ queue_shutdown
          /\ worker_pc' = [worker_pc EXCEPT ![w] = "check"]
          /\ UNCHANGED <<worker_task, queue_, tasks_started>>
    /\ UNCHANGED <<num_threads_, running_, shutdown_requested_, queue_shutdown,
                   promise, xpc, at_shutdown>>
    /\ UNCHANGED <<streamVars, partVars, splitVars, mapVars, extVars, batchVars,
                   phaseVars, reqVars, estVars, metaVars, pfVars, taskVars, ctxVars, retryVars, cacheVars>>

\* Executor::execute_task: the task runs to completion and its promise is
\* fulfilled with its result or with the exception it threw.
WorkerExecute(w) ==
    /\ worker_pc[w] = "execute"
    /\ \E outcome \in {"value", "exception"} :
          promise' = [promise EXCEPT ![worker_task[w]] = outcome]
    /\ worker_pc' = [worker_pc EXCEPT ![w] = "check"]
    /\ worker_task' = [worker_task EXCEPT ![w] = 0]
    /\ UNCHANGED <<num_threads_, running_, shutdown_requested_, queue_,
                   queue_shutdown, tasks_started, xpc, at_shutdown>>
    /\ UNCHANGED <<streamVars, partVars, splitVars, mapVars, extVars, batchVars,
                   phaseVars, reqVars, estVars, metaVars, pfVars, taskVars, ctxVars, retryVars, cacheVars>>

\* Executor::request_shutdown
RequestShutdown ==
    /\ xpc = "started"
    /\ ~shutdown_requested_
    /\ shutdown_requested_' = TRUE
    /\ queue_shutdown' = TRUE
    /\ at_shutdown' = ShutdownSnapshot
    /\ UNCHANGED <<num_threads_, running_, queue_, worker_pc, worker_task,
                   promise, tasks_started, xpc>>
    /\ UNCHANGED <<streamVars, partVars, splitVars, mapVars, extVars, batchVars,
                   phaseVars, reqVars, estVars, metaVars, pfVars, taskVars, ctxVars, retryVars, cacheVars>>

\* A faulty shutdown that shuts the queue down and leaves running_ set.
ShutdownQueueOnly ==
    /\ xpc = "started"
    /\ running_
    /\ queue_shutdown' = TRUE
    /\ at_shutdown' = ShutdownSnapshot
    /\ xpc' = "joining"
    /\ UNCHANGED <<num_threads_, running_, shutdown_requested_, queue_,
                   worker_pc, worker_task, promise, tasks_started>>
    /\ UNCHANGED <<streamVars, partVars, splitVars, mapVars, extVars, batchVars,
                   phaseVars, reqVars, estVars, metaVars, pfVars, taskVars, ctxVars, retryVars, cacheVars>>

\* Executor::shutdown up to the joins.
Shutdown ==
    /\ xpc = "started"
    /\ running_
    /\ running_' = FALSE
    /\ queue_shutdown' = TRUE
    /\ at_shutdown' = ShutdownSnapshot
    /\ xpc' = "joining"
    /\ UNCHANGED <<num_threads_, shutdown_requested_, queue_, worker_pc,
                   worker_task, promise, tasks_started>>
    /\ UNCHANGED <<streamVars, partVars, splitVars, mapVars, extVars, batchVars,
                   phaseVars, reqVars, estVars, metaVars, pfVars, taskVars, ctxVars, retryVars, cacheVars>>

\* Executor::shutdown: every worker thread is joined and shutdown returns.
ShutdownReturns ==
    /\ xpc = "joining"
    /\ \A w \in 1..num_threads_ : ThreadJoined(worker_pc[w])
    /\ xpc' = "stopped"
    /\ UNCHANGED <<num_threads_, running_, shutdown_requested_, queue_,
                   queue_shutdown, worker_pc, worker_task, promise,
                   tasks_started, at_shutdown>>
    /\ UNCHANGED <<streamVars, partVars, splitVars, mapVars, extVars, batchVars,
                   phaseVars, reqVars, estVars, metaVars, pfVars, taskVars, ctxVars, retryVars, cacheVars>>

NextExecutor ==
    \/ Submit
    \/ \E w \in 1..num_threads_ : WorkerCheck(w)
    \/ \E w \in 1..num_threads_ : WorkerPop(w)
    \/ \E w \in 1..num_threads_ : WorkerExecute(w)
    \/ RequestShutdown
    \/ Shutdown
    \/ ShutdownReturns

SpecExecutor == InitExecutor /\ [][NextExecutor]_vars

\* The worker threads are scheduled: a worker that can take its next step
\* takes it, a task that executes comes to its end, and a join returns once
\* its thread has ended.  Nothing obliges anyone to submit or to shut down.
ExecutorFairness ==
    /\ \A w \in 1..MaxExecThreads :
          /\ WF_vars(w <= num_threads_ /\ WorkerCheck(w))
          /\ WF_vars(w <= num_threads_ /\ WorkerPop(w))
          /\ WF_vars(w <= num_threads_ /\ WorkerExecute(w))
    /\ WF_vars(ShutdownReturns)

SpecExecutorFair == SpecExecutor /\ ExecutorFairness

\* ------------------------------------------- stream requests on a Reader
MaxBeyond == 2
MaxRequestReads == 2

StreamTypes == {"BYTES", "LINE_BYTES", "MULTI_LINES_BYTES", "LINE", "MULTI_LINES"}

\* reader->get_max_bytes()
max_bytes == Len(content)

\* The byte ranges a caller asks for: inside the content, empty ranges
\* included, and for a BYTES stream also ranges that lie beyond max_bytes.
RequestRanges(type) ==
    {r \in (0..(max_bytes + MaxBeyond)) \X (0..(max_bytes + MaxBeyond)) :
        /\ r[1] <= r[2]
        /\ \/ r[2] <= max_bytes
           \/ type = "BYTES" /\ r[1] > max_bytes}

\* A faulty Reader::stream that rejects a range beyond max_bytes.
Reader_stream_rejecting(a, b) ==
    IF b > max_bytes THEN "OutOfRange" ELSE "stream"

\* reader->stream(type, BYTE_RANGE, a, b): a stream is handed out for every
\* range, a range beyond max_bytes included.
Reader_stream(a, b) == "stream"

\* The stream object handed out: a raw byte stream over [a, b), a
\* line-aligned stream, or a LineStream / MultiLineStream over one.
OpenStream(type, a, b) ==
    LET u == IF type = "BYTES"
             THEN [upos |-> a, uend |-> b, udone |-> FALSE,
                   rbuf |-> << >>, bpos |-> 0]
             ELSE LineBytesOpen(content, a, b, uEager)
    IN  [upos |-> u.upos, uend |-> u.uend, udone |-> u.udone,
         rbuf |-> u.rbuf, bpos |-> u.bpos, acc |-> << >>, cur |-> << >>,
         fin |-> FALSE, pend |-> FALSE, lineno |-> 1, opos |-> 0,
         nout |-> 0, ok |-> TRUE, ret |-> << >>]

\* A faulty BYTES read that ignores the end of the range.
BytesReadToEnd(s, n) ==
    LET k == IF s.upos >= max_bytes THEN 0 ELSE Min(n, max_bytes - s.upos)
    IN  [s EXCEPT !.ret = Bytes(content, s.upos, s.upos + k),
                  !.upos = @ + k,
                  !.udone = (k = 0) \/ (uEager /\ s.upos + k >= max_bytes)]

\* BYTES: the bytes that follow, as many as fit, up to the end of the range
\* and of the content; a read that has nothing left delivers 0 bytes.
BytesRead(s, n) ==
    LET limit == Min(s.uend, max_bytes)
        k     == IF s.upos >= limit THEN 0 ELSE Min(n, limit - s.upos)
    IN  [s EXCEPT !.ret = Bytes(content, s.upos, s.upos + k),
                  !.upos = @ + k,
                  !.udone = (k = 0) \/ (uEager /\ s.upos + k >= limit)]

\* LINE_BYTES and MULTI_LINES_BYTES: complete lines only, one per read or as
\* many as one read delivers, that fit the caller's buffer.
LineBytesRead(s, n, per_read) ==
    IF s.upos >= s.uend
    THEN [s EXCEPT !.udone = TRUE, !.ret = << >>]
    ELSE LET one == AfterLines(content, s.upos, 1, s.uend)
             e   == AfterLines(content, s.upos, per_read, s.uend)
             to  == IF e - s.upos <= n THEN e
                    ELSE IF one - s.upos <= n THEN one
                    ELSE s.upos
         IN  [s EXCEPT !.ret = Bytes(content, s.upos, to),
                       !.upos = to,
                       !.udone = uEager /\ to >= s.uend]

RequestedRead(s, n) ==
    IF stream_type = "BYTES" THEN BytesRead(s, n)
    ELSE IF stream_type = "LINE_BYTES" THEN LineBytesRead(s, n, 1)
    ELSE IF stream_type = "MULTI_LINES_BYTES" THEN LineBytesRead(s, n, uPerRead)
    ELSE StreamRead(s, n)

RequestedDone(s) ==
    IF stream_type \in {"LINE", "MULTI_LINES"} THEN StreamDone(s) ELSE s.udone

InitRequest ==
    /\ \E lens \in LineLens : content = TextOf(lens, Len(lens))
    /\ stream_type \in StreamTypes
    /\ \E r \in RequestRanges(stream_type) :
          start_bytes = r[1] /\ end_bytes = r[2]
    /\ handed = "none"
    /\ kind = IF stream_type = "MULTI_LINES" THEN "MultiLines" ELSE "Line"
    /\ start_line = 0
    /\ end_line = 0
    /\ initial_line = 1
    /\ uEager \in BOOLEAN
    /\ uPerRead \in 1..MaxCoalesce
    /\ st = NewStream(<< >>, 1, FALSE)
    /\ out = << >>
    /\ lastRet = << >>
    /\ lastBuf = 0
    /\ minBuf = MaxBuf
    /\ doneBefore = FALSE
    /\ calls = 0
    /\ PartitionIdle
    /\ SplitIdle
    /\ MapperIdle
    /\ ExtractIdle
    /\ BatchIdle
    /\ PhasesIdle
    /\ ExecutorIdle
    /\ EstimateIdle
    /\ MetadataIdle
    /\ PlainIterIdle
    /\ ExecuteTaskIdle
    /\ ContextIdle
    /\ RetryIdle
    /\ CacheIdle

\* The caller asks the Reader for the stream.
RequestStream ==
    /\ handed = "none"
    /\ handed' = Reader_stream(start_bytes, end_bytes)
    /\ st' = IF handed' = "stream"
             THEN OpenStream(stream_type, start_bytes, end_bytes)
             ELSE st
    /\ UNCHANGED <<stream_type, start_bytes, end_bytes>>
    /\ UNCHANGED <<content, kind, start_line, end_line, initial_line, uEager,
                   uPerRead, out, lastRet, lastBuf, minBuf, doneBefore, calls>>
    /\ UNCHANGED <<partVars, splitVars, mapVars, extVars, batchVars, phaseVars,
                   execVars, estVars, metaVars, pfVars, taskVars, ctxVars, retryVars, cacheVars>>

\* The caller calls read(buffer, n) on the stream it was handed.
RequestRead(n) ==
    /\ handed = "stream"
    /\ calls < MaxRequestReads
    /\ st' = RequestedRead(st, n)
    /\ out' = out \o st'.ret
    /\ lastRet' = st'.ret
    /\ lastBuf' = n
    /\ minBuf' = Min(minBuf, n)
    /\ doneBefore' = RequestedDone(st)
    /\ calls' = calls + 1
    /\ UNCHANGED <<stream_type, start_bytes, end_bytes, handed>>
    /\ UNCHANGED <<content, kind, start_line, end_line, initial_line, uEager,
                   uPerRead>>
    /\ UNCHANGED <<partVars, splitVars, mapVars, extVars, batchVars, phaseVars,
                   execVars, estVars, metaVars, pfVars, taskVars, ctxVars, retryVars, cacheVars>>

NextRequest ==
    \/ RequestStream
    \/ \E n \in MinBuf..MaxBuf : RequestRead(n)

SpecRequest == InitRequest /\ [][NextRequest]_vars

\* ------------------------------------------- Reader::estimate_lines_in_range
MaxEstBytes == 10
MaxEstLines == 10

\* byte_range * lines_per_byte * 1.1 rounded up, as an exact quotient:
\* (end - start) * num_lines * 11 / (max_bytes * 10).
CeilEstimate(num_lines, maxb, a, b) ==
    (((b - a) * num_lines * 11) + (maxb * 10 - 1)) \div (maxb * 10)

\* if (get_max_bytes() == 0) return 0; otherwise the product of the byte
\* range, the lines per byte and 1.1, converted to std::size_t: the
\* conversion drops the fraction.
estimate_lines_in_range(num_lines, maxb, a, b) ==
    IF maxb = 0 THEN 0
    ELSE ((b - a) * num_lines * 11) \div (maxb * 10)

InitEstimate ==
    /\ est_num_lines \in 0..MaxEstLines
    /\ est_max_bytes \in 0..MaxEstBytes
    /\ est_end \in 0..est_max_bytes
    /\ est_start \in 0..est_end
    /\ est_lines = 0
    /\ est_pc = "called"
    /\ NoReader
    /\ StreamIdle
    /\ PartitionIdle
    /\ SplitIdle
    /\ MapperIdle
    /\ ExtractIdle
    /\ BatchIdle
    /\ PhasesIdle
    /\ ExecutorIdle
    /\ RequestIdle
    /\ MetadataIdle
    /\ PlainIterIdle
    /\ ExecuteTaskIdle
    /\ ContextIdle
    /\ RetryIdle
    /\ CacheIdle

\* reader.estimate_lines_in_range(start_bytes, end_bytes) returns.
Estimate ==
    /\ est_pc = "called"
    /\ est_lines' = estimate_lines_in_range(est_num_lines, est_max_bytes,
                                            est_start, est_end)
    /\ est_pc' = "returned"
    /\ UNCHANGED <<est_num_lines, est_max_bytes, est_start, est_end>>
    /\ UNCHANGED <<streamVars, partVars, splitVars, mapVars, extVars, batchVars, phaseVars, execVars, reqVars, metaVars, pfVars, taskVars, ctxVars, retryVars, cacheVars>>

NextEstimate == Estimate

SpecEstimate == InitEstimate /\ [][NextEstimate]_vars

\* ------------------------------------------- metadata of one file
MaxMetaLines == 3

\* The files the collectors are run on: lines of every kind in every order.
MetaFiles ==
    UNION {[1..n -> ExtLineKinds] : n \in 0..MaxMetaLines}

\* The condition of the collectors' loops on one line:
\* json_trim_and_validate(...) && trimmed_length > 8.
CountsAsEvent(line) ==
    LET v == json_trim_and_validate(line)
    IN  v.ok /\ Len(v.trimmed) > MinEventLength

\* valid_events and total_bytes at the end of the loop over the lines 1..n.
RECURSIVE ValidatedEvents(_, _)
ValidatedEvents(lines, n) ==
    IF n = 0 THEN [valid_events |-> 0, total_bytes |-> 0]
    ELSE LET r == ValidatedEvents(lines, n - 1) IN
         IF CountsAsEvent(lines[n])
         THEN [valid_events |-> r.valid_events + 1,
               total_bytes |-> r.total_bytes + Len(lines[n])]
         ELSE r

\* utilities::composites::dft::MetadataCollectorUtility::process, the
\* collector dftracer_split runs: process_plain validates every line,
\* process_compressed reads the line count off the index and takes the
\* lines but two for events.
MetadataCollectorUtility_process(lines, plain, file_size) ==
    LET r == ValidatedEvents(lines, Len(lines))
    IN  MetadataOf(plain, TRUE, Len(lines), r.valid_events, r.total_bytes,
                   file_size)

\* components::workflows::dft::DFTracerMetadataCollector::process: both
\* process_plain and process_compressed validate every line; a compressed
\* file without lines is reported as a failure.
DFTracerMetadataCollector_process(lines, plain) ==
    LET r == ValidatedEvents(lines, Len(lines))
    IN  IF ~plain /\ Len(lines) = 0
        THEN MetadataOf(plain, TRUE, 0, 0, 0, 0)
        ELSE [MetadataOf(TRUE, TRUE, Len(lines), r.valid_events,
                         r.total_bytes, 0) EXCEPT !.plain = plain]

InitMetadata ==
    /\ \E kinds \in MetaFiles : md_lines = ExtFileLines(1, kinds)
    /\ md_plain \in BOOLEAN
    /\ md_collector \in {"utilities", "components"}
    /\ md_file_size = Len(md_lines) + 1
    /\ md_meta = << >>
    /\ md_pc = "called"
    /\ NoReader
    /\ StreamIdle
    /\ PartitionIdle
    /\ SplitIdle
    /\ MapperIdle
    /\ ExtractIdle
    /\ BatchIdle
    /\ PhasesIdle
    /\ ExecutorIdle
    /\ RequestIdle
    /\ EstimateIdle
    /\ PlainIterIdle
    /\ ExecuteTaskIdle
    /\ ContextIdle
    /\ RetryIdle
    /\ CacheIdle

\* process(input) returns the file's record.
CollectFileMetadata ==
    /\ md_pc = "called"
    /\ md_meta' = IF md_collector = "utilities"
                  THEN MetadataCollectorUtility_process(md_lines, md_plain,
                                                        md_file_size)
                  ELSE DFTracerMetadataCollector_process(md_lines, md_plain)
    /\ md_pc' = "returned"
    /\ UNCHANGED <<md_lines, md_plain, md_collector, md_file_size>>
    /\ UNCHANGED <<streamVars, partVars, splitVars, mapVars, extVars, batchVars, phaseVars, execVars, reqVars, estVars, pfVars, taskVars, ctxVars, retryVars, cacheVars>>

NextMetadata == CollectFileMetadata

SpecMetadata == InitMetadata /\ [][NextMetadata]_vars

\* ------------------------------------------- PlainFileBytesIterator
MaxPlainLines == 3
MaxPlainLineLen == 3
MaxChunks == 3

PlainLineLens ==
    UNION {[1..n -> 1..MaxPlainLineLen] : n \in 1..MaxPlainLines}

\* The files read: every line ends with a newline, or the last one lacks it.
PlainTexts ==
    {TextOf(lens, Len(lens)) : lens \in PlainLineLens} \cup
    {SubSeq(TextOf(lens, Len(lens)), 1, SumTo(lens, Len(lens)) - 1) :
        lens \in {l \in PlainLineLens : l[Len(l)] > 1}}

\* The boundaries 0 = c0 < c1 < ... < ck = file_size of k chunks, none of
\* them empty: the constructor throws when start_byte >= end_byte.
ChunkCuts(file_size, k) ==
    {c \in [1..(k + 1) -> 0..file_size] :
        /\ c[1] = 0
        /\ c[k + 1] = file_size
        /\ \A i \in 1..k : c[i] < c[i + 1]}

\* The lines of the file as one sequential read yields them, without their
\* newlines.
PlainLines(text) ==
    LET ls == SplitLines(text)
    IN  [i \in 1..Len(ls) |->
            IF ls[i][Len(ls[i])] = NL
            THEN SubSeq(ls[i], 1, Len(ls[i]) - 1) ELSE ls[i]]

\* std::getline(file_stream, line) on the stream f = [pos, eof, fail]: the
\* bytes up to the next newline, which is consumed and not stored; at the
\* end of the file eofbit is set, and failbit too when nothing was read.
std_getline(text, f) ==
    IF f.eof \/ f.fail
    THEN [f |-> [f EXCEPT !.fail = TRUE], line |-> << >>]
    ELSE LET nl == FindNewline(text, f.pos) IN
         IF nl = -1
         THEN [f |-> [pos |-> Len(text), eof |-> TRUE,
                      fail |-> f.pos >= Len(text)],
               line |-> Bytes(text, f.pos, Len(text))]
         ELSE [f |-> [f EXCEPT !.pos = nl + 1],
               line |-> Bytes(text, f.pos, nl)]

\* file_stream.tellg(): -1 once eofbit or failbit is set.
tellg(f) == IF f.eof \/ f.fail THEN -1 ELSE f.pos

\* seekg(start_byte), and if (start_byte > 0) a getline that is discarded:
\* the stream and current_byte afterwards.
PF_align(text, start_byte) ==
    LET f0 == [pos |-> start_byte, eof |-> FALSE, fail |-> FALSE] IN
    IF start_byte > 0
    THEN LET g == std_getline(text, f0)
         IN  [f |-> g.f, current_byte |-> tellg(g.f)]
    ELSE [f |-> f0, current_byte |-> start_byte]

\* components: the while loop of load_lines.
RECURSIVE PF_load_loop(_, _, _, _, _)
PF_load_loop(text, f, current_byte, end_byte, lines) ==
    IF current_byte < end_byte /\ ~f.eof
    THEN LET g == std_getline(text, f)
             line_length == Len(g.line) + 1
         IN  PF_load_loop(text, g.f, current_byte + line_length, end_byte,
                          IF current_byte < end_byte
                          THEN Append(lines, g.line) ELSE lines)
    ELSE lines

\* components: the constructor, which loads the lines of the range.
PF_components_open(text, start_byte, end_byte) ==
    LET a == PF_align(text, start_byte)
    IN  [pos |-> a.f.pos, eof |-> a.f.eof, fail |-> a.f.fail,
         current_byte |-> a.current_byte, end_byte |-> end_byte,
         exhausted |-> FALSE,
         lines |-> IF a.current_byte = -1 THEN << >>
                   ELSE PF_load_loop(text, a.f, a.current_byte, end_byte,
                                     << >>),
         current_index |-> 0]

\* utilities: the constructor, which only aligns to the next line.
PF_utilities_open(text, start_byte, end_byte) ==
    LET a == PF_align(text, start_byte)
    IN  [pos |-> a.f.pos, eof |-> a.f.eof, fail |-> a.f.fail,
         current_byte |-> a.current_byte, end_byte |-> end_byte,
         exhausted |-> a.current_byte = -1,
         lines |-> << >>, current_index |-> 0]

PF_has_next(class, it) ==
    IF class = "components" THEN it.current_index < Len(it.lines)
    ELSE ~it.exhausted /\ it.current_byte < it.end_byte /\ ~it.eof

\* next(): the line and the iterator afterwards.
PF_next(class, text, it) ==
    IF class = "components"
    THEN [line |-> it.lines[it.current_index + 1],
          it |-> [it EXCEPT !.current_index = @ + 1]]
    ELSE LET g == std_getline(text, [pos |-> it.pos, eof |-> it.eof,
                                     fail |-> it.fail])
             cb == it.current_byte + Len(g.line) + 1
         IN  [line |-> g.line,
              it |-> [it EXCEPT !.pos = g.f.pos, !.eof = g.f.eof,
                                !.fail = g.f.fail, !.current_byte = cb,
                                !.exhausted = g.f.eof \/ cb >= it.end_byte]]

InitPlainIter ==
    /\ pf_text \in PlainTexts
    /\ \E k \in 1..MaxChunks : pf_cuts \in ChunkCuts(Len(pf_text), k)
    /\ pf_class \in {"components", "utilities"}
    /\ pf_chunk = 1
    /\ pf_it = NoIterator
    /\ pf_yielded = << >>
    /\ pf_pc = "open"
    /\ NoReader
    /\ StreamIdle
    /\ PartitionIdle
    /\ SplitIdle
    /\ MapperIdle
    /\ ExtractIdle
    /\ BatchIdle
    /\ PhasesIdle
    /\ ExecutorIdle
    /\ RequestIdle
    /\ EstimateIdle
    /\ MetadataIdle
    /\ ExecuteTaskIdle
    /\ ContextIdle
    /\ RetryIdle
    /\ CacheIdle

\* PlainFileBytesIterator it(path, c[i], c[i + 1]) for the next chunk.
PlainOpen ==
    /\ pf_pc = "open"
    /\ pf_it' = IF pf_class = "components"
                THEN PF_components_open(pf_text, pf_cuts[pf_chunk],
                                        pf_cuts[pf_chunk + 1])
                ELSE PF_utilities_open(pf_text, pf_cuts[pf_chunk],
                                       pf_cuts[pf_chunk + 1])
    /\ pf_pc' = "read"
    /\ UNCHANGED <<pf_text, pf_cuts, pf_class, pf_chunk, pf_yielded>>
    /\ UNCHANGED <<streamVars, partVars, splitVars, mapVars, extVars, batchVars, phaseVars, execVars, reqVars, estVars, metaVars, taskVars, ctxVars, retryVars, cacheVars>>

\* while (it.has_next()) { Line line = it.next(); ... }
PlainNext ==
    /\ pf_pc = "read"
    /\ PF_has_next(pf_class, pf_it)
    /\ LET r == PF_next(pf_class, pf_text, pf_it)
       IN  /\ pf_it' = r.it
           /\ pf_yielded' = Append(pf_yielded, r.line)
    /\ UNCHANGED <<pf_text, pf_cuts, pf_class, pf_chunk, pf_pc>>
    /\ UNCHANGED <<streamVars, partVars, splitVars, mapVars, extVars, batchVars, phaseVars, execVars, reqVars, estVars, metaVars, taskVars, ctxVars, retryVars, cacheVars>>

\* has_next() is false: on to the next chunk, or the file is done.
PlainChunkEnd ==
    /\ pf_pc = "read"
    /\ ~PF_has_next(pf_class, pf_it)
    /\ IF pf_chunk + 1 < Len(pf_cuts)
       THEN pf_chunk' = pf_chunk + 1 /\ pf_pc' = "open"
       ELSE pf_chunk' = pf_chunk /\ pf_pc' = "done"
    /\ UNCHANGED <<pf_text, pf_cuts, pf_class, pf_it, pf_yielded>>
    /\ UNCHANGED <<streamVars, partVars, splitVars, mapVars, extVars, batchVars, phaseVars, execVars, reqVars, estVars, metaVars, taskVars, ctxVars, retryVars, cacheVars>>

NextPlainIter ==
    \/ PlainOpen
    \/ PlainNext
    \/ PlainChunkEnd

SpecPlainIter == InitPlainIter /\ [][NextPlainIter]_vars

\* ------------------------------------------- the byte-range line iterators
\* The byte ranges an iterator is constructed on: start_byte < end_byte.
IterRanges(file_size) ==
    {r \in (0..file_size) \X (0..file_size) : r[1] < r[2]}

\* reader->read_line_bytes(start_byte, end_byte, buffer, buffer_size): the
\* complete lines whose first byte lies in the range, as many as the buffer
\* holds.
read_line_bytes(text, start_byte, end_byte, buffer_size) ==
    LET s    == AlignStart(text, start_byte)
        ends == {AfterLines(text, s, k, end_byte) : k \in 0..Len(text)}
        fit  == {e \in ends : e - s <= buffer_size}
        e    == CHOOSE x \in fit : \A y \in fit : y <= x
    IN  Bytes(text, s, e)

\* IndexedFileBytesIterator::IndexedFileBytesIterator: the bytes of the range
\* are read at once into all_content_, which stream_ is set on.
IF_open(text, start_byte, end_byte) ==
    LET all == read_line_bytes(text, start_byte, end_byte,
                               end_byte - start_byte)
    IN  [pos |-> 0, eof |-> FALSE, fail |-> FALSE, current_byte |-> 0,
         end_byte |-> end_byte, exhausted |-> Len(all) = 0,
         lines |-> << >>, current_index |-> 0, all_content |-> all]

\* IndexedFileBytesIterator::has_next
IF_has_next(it) == ~it.exhausted /\ ~it.eof

\* IndexedFileBytesIterator::next after has_next() was true: the line, or
\* the runtime_error thrown when std::getline fails.
IF_next(it) ==
    LET g == std_getline(it.all_content,
                         [pos |-> it.pos, eof |-> it.eof, fail |-> it.fail])
        r == [it EXCEPT !.pos = g.f.pos, !.eof = g.f.eof, !.fail = g.f.fail]
    IN  IF g.f.fail
        THEN [thrown |-> TRUE, line |-> << >>,
              it |-> [r EXCEPT !.exhausted = TRUE]]
        ELSE [thrown |-> FALSE, line |-> g.line, it |-> r]

IterHasNext ==
    IF pf_class = "indexed" THEN IF_has_next(pf_it)
    ELSE PF_has_next(pf_class, pf_it)

IterNext ==
    IF pf_class = "indexed" THEN IF_next(pf_it)
    ELSE LET r == PF_next(pf_class, pf_text, pf_it)
         IN  [thrown |-> FALSE, line |-> r.line, it |-> r.it]

InitBytesIter ==
    /\ pf_text \in PlainTexts
    /\ \E r \in IterRanges(Len(pf_text)) : pf_cuts = <<r[1], r[2]>>
    /\ pf_class \in {"utilities", "indexed"}
    /\ pf_chunk = 1
    /\ pf_it = NoIterator
    /\ pf_yielded = << >>
    /\ pf_pc = "open"
    /\ NoReader
    /\ StreamIdle
    /\ PartitionIdle
    /\ SplitIdle
    /\ MapperIdle
    /\ ExtractIdle
    /\ BatchIdle
    /\ PhasesIdle
    /\ ExecutorIdle
    /\ RequestIdle
    /\ EstimateIdle
    /\ MetadataIdle
    /\ ExecuteTaskIdle
    /\ ContextIdle
    /\ RetryIdle
    /\ CacheIdle

\* The iterator is constructed on the range.
BytesIterOpen ==
    /\ pf_pc = "open"
    /\ pf_it' = IF pf_class = "indexed"
                THEN IF_open(pf_text, pf_cuts[1], pf_cuts[2])
                ELSE PF_utilities_open(pf_text, pf_cuts[1], pf_cuts[2])
    /\ pf_pc' = "read"
    /\ UNCHANGED <<pf_text, pf_cuts, pf_class, pf_chunk, pf_yielded>>
    /\ UNCHANGED <<streamVars, partVars, splitVars, mapVars, extVars, batchVars, phaseVars, execVars, reqVars, estVars, metaVars, taskVars, ctxVars, retryVars, cacheVars>>

\* has_next() returned true and next() returns a line.
BytesIterNext ==
    /\ pf_pc = "read"
    /\ IterHasNext
    /\ ~IterNext.thrown
    /\ pf_it' = IterNext.it
    /\ pf_yielded' = Append(pf_yielded, IterNext.line)
    /\ UNCHANGED <<pf_text, pf_cuts, pf_class, pf_chunk, pf_pc>>
    /\ UNCHANGED <<streamVars, partVars, splitVars, mapVars, extVars, batchVars, phaseVars, execVars, reqVars, estVars, metaVars, taskVars, ctxVars, retryVars, cacheVars>>

\* has_next() returned true and next() throws.
BytesIterThrows ==
    /\ pf_pc = "read"
    /\ IterHasNext
    /\ IterNext.thrown
    /\ pf_it' = IterNext.it
    /\ pf_pc' = "thrown"
    /\ UNCHANGED <<pf_text, pf_cuts, pf_class, pf_chunk, pf_yielded>>
    /\ UNCHANGED <<streamVars, partVars, splitVars, mapVars, extVars, batchVars, phaseVars, execVars, reqVars, estVars, metaVars, taskVars, ctxVars, retryVars, cacheVars>>

\* has_next() returned false: the loop is over.
BytesIterEnd ==
    /\ pf_pc = "read"
    /\ ~IterHasNext
    /\ pf_pc' = "done"
    /\ UNCHANGED <<pf_text, pf_cuts, pf_class, pf_chunk, pf_it, pf_yielded>>
    /\ UNCHANGED <<streamVars, partVars, splitVars, mapVars, extVars, batchVars, phaseVars, execVars, reqVars, estVars, metaVars, taskVars, ctxVars, retryVars, cacheVars>>

NextBytesIter ==
    \/ BytesIterOpen
    \/ BytesIterNext
    \/ BytesIterThrows
    \/ BytesIterEnd

SpecBytesIter == InitBytesIter /\ [][NextBytesIter]_vars

\* ------------------------------------------------ Executor::execute_task
\* executor.cpp 95-162, statement by statement, on every worker thread.  The
\* task, its promise and the completion callback are not in the sources here:
\* a task body and a callback either return or throw, and fulfilling a promise
\* that is already fulfilled either throws (std::promise does) or is accepted.

MaxExecuted == 3

ETWorkers == 1..MaxExecThreads

ETOthers == <<streamVars, partVars, splitVars, mapVars, extVars, batchVars, phaseVars, execVars, reqVars, estVars, metaVars, pfVars, ctxVars, retryVars, cacheVars>>

\* The worker is through with its task: one tally per task that went through.
ETFinish(w) ==
    /\ et_finished' = et_finished \cup
           {[task |-> Cardinality(et_finished) + 1,
             fulfilled |-> et_fulfilled[w], counted |-> et_counted[w]]}
    /\ et_pc' = [et_pc EXCEPT ![w] = "idle"]

InitExecuteTask ==
    /\ et_pc = [w \in ETWorkers |-> "idle"]
    /\ et_fulfilled = [w \in ETWorkers |-> 0]
    /\ et_counted = [w \in ETWorkers |-> 0]
    /\ tasks_started_ = 0
    /\ tasks_completed_ = 0
    /\ completion_callback_ = FALSE
    /\ et_finished = {}
    /\ NoReader
    /\ StreamIdle
    /\ PartitionIdle
    /\ SplitIdle
    /\ MapperIdle
    /\ ExtractIdle
    /\ BatchIdle
    /\ PhasesIdle
    /\ ExecutorIdle
    /\ RequestIdle
    /\ EstimateIdle
    /\ MetadataIdle
    /\ PlainIterIdle
    /\ ContextIdle
    /\ RetryIdle
    /\ CacheIdle

\* set_completion_callback
SetCompletionCallback ==
    /\ ~completion_callback_
    /\ completion_callback_' = TRUE
    /\ UNCHANGED <<et_pc, et_fulfilled, et_counted, tasks_started_,
                   tasks_completed_, et_finished>>
    /\ UNCHANGED ETOthers

\* execute_task is entered: ++tasks_started_
ETBegin(w) ==
    /\ et_pc[w] = "idle"
    /\ tasks_started_ < MaxExecuted
    /\ tasks_started_' = tasks_started_ + 1
    /\ et_fulfilled' = [et_fulfilled EXCEPT ![w] = 0]
    /\ et_counted' = [et_counted EXCEPT ![w] = 0]
    /\ et_pc' = [et_pc EXCEPT ![w] = "execute"]
    /\ UNCHANGED <<tasks_completed_, completion_callback_, et_finished>>
    /\ UNCHANGED ETOthers

\* task->execute returns and task->fulfill_promise(result)
ETExecuteReturns(w) ==
    /\ et_pc[w] = "execute"
    /\ et_fulfilled' = [et_fulfilled EXCEPT ![w] = @ + 1]
    /\ et_pc' = [et_pc EXCEPT ![w] = "count"]
    /\ UNCHANGED <<et_counted, tasks_started_, tasks_completed_,
                   completion_callback_, et_finished>>
    /\ UNCHANGED ETOthers

\* task->execute throws: control is in a catch clause
ETExecuteThrows(w) ==
    /\ et_pc[w] = "execute"
    /\ et_pc' = [et_pc EXCEPT ![w] = "catch_fulfil"]
    /\ UNCHANGED <<et_fulfilled, et_counted, tasks_started_, tasks_completed_,
                   completion_callback_, et_finished>>
    /\ UNCHANGED ETOthers

\* ++tasks_completed_ in the try block
ETCount(w) ==
    /\ et_pc[w] = "count"
    /\ tasks_completed_' = tasks_completed_ + 1
    /\ et_counted' = [et_counted EXCEPT ![w] = @ + 1]
    /\ et_pc' = [et_pc EXCEPT ![w] = "notify"]
    /\ UNCHANGED <<et_fulfilled, tasks_started_, completion_callback_,
                   et_finished>>
    /\ UNCHANGED ETOthers

\* notify_completion in the try block returns: execute_task returns
ETNotifyReturns(w) ==
    /\ et_pc[w] = "notify"
    /\ ETFinish(w)
    /\ UNCHANGED <<et_fulfilled, et_counted, tasks_started_, tasks_completed_,
                   completion_callback_>>
    /\ UNCHANGED ETOthers

\* notify_completion in the try block: the callback throws, and the try block
\* it was called in has the catch clauses
ETNotifyThrows(w) ==
    /\ et_pc[w] = "notify"
    /\ completion_callback_
    /\ et_pc' = [et_pc EXCEPT ![w] = "catch_fulfil"]
    /\ UNCHANGED <<et_fulfilled, et_counted, tasks_started_, tasks_completed_,
                   completion_callback_, et_finished>>
    /\ UNCHANGED ETOthers

\* task->fulfill_promise_exception in a catch clause is accepted
ETCatchFulfil(w) ==
    /\ et_pc[w] = "catch_fulfil"
    /\ et_fulfilled' = [et_fulfilled EXCEPT ![w] = @ + 1]
    /\ et_pc' = [et_pc EXCEPT ![w] = "catch_count"]
    /\ UNCHANGED <<et_counted, tasks_started_, tasks_completed_,
                   completion_callback_, et_finished>>
    /\ UNCHANGED ETOthers

\* task->fulfill_promise_exception in a catch clause throws because the
\* promise is fulfilled already: nothing catches it, the thread ends
ETCatchFulfilThrows(w) ==
    /\ et_pc[w] = "catch_fulfil"
    /\ et_fulfilled[w] > 0
    /\ et_pc' = [et_pc EXCEPT ![w] = "escaped"]
    /\ UNCHANGED <<et_fulfilled, et_counted, tasks_started_, tasks_completed_,
                   completion_callback_, et_finished>>
    /\ UNCHANGED ETOthers

\* ++tasks_completed_ in a catch clause
ETCatchCount(w) ==
    /\ et_pc[w] = "catch_count"
    /\ tasks_completed_' = tasks_completed_ + 1
    /\ et_counted' = [et_counted EXCEPT ![w] = @ + 1]
    /\ et_pc' = [et_pc EXCEPT ![w] = "catch_notify"]
    /\ UNCHANGED <<et_fulfilled, tasks_started_, completion_callback_,
                   et_finished>>
    /\ UNCHANGED ETOthers

\* notify_completion in a catch clause returns: execute_task returns
ETCatchNotifyReturns(w) ==
    /\ et_pc[w] = "catch_notify"
    /\ ETFinish(w)
    /\ UNCHANGED <<et_fulfilled, et_counted, tasks_started_, tasks_completed_,
                   completion_callback_>>
    /\ UNCHANGED ETOthers

\* notify_completion in a catch clause: the callback throws, nothing catches
\* it, the thread ends
ETCatchNotifyThrows(w) ==
    /\ et_pc[w] = "catch_notify"
    /\ completion_callback_
    /\ et_pc' = [et_pc EXCEPT ![w] = "escaped"]
    /\ UNCHANGED <<et_fulfilled, et_counted, tasks_started_, tasks_completed_,
                   completion_callback_, et_finished>>
    /\ UNCHANGED ETOthers

NextExecuteTask ==
    \/ SetCompletionCallback
    \/ \E w \in ETWorkers : ETBegin(w)
    \/ \E w \in ETWorkers : ETExecuteReturns(w)
    \/ \E w \in ETWorkers : ETExecuteThrows(w)
    \/ \E w \in ETWorkers : ETCount(w)
    \/ \E w \in ETWorkers : ETNotifyReturns(w)
    \/ \E w \in ETWorkers : ETNotifyThrows(w)
    \/ \E w \in ETWorkers : ETCatchFulfil(w)
    \/ \E w \in ETWorkers : ETCatchFulfilThrows(w)
    \/ \E w \in ETWorkers : ETCatchCount(w)
    \/ \E w \in ETWorkers : ETCatchNotifyReturns(w)
    \/ \E w \in ETWorkers : ETCatchNotifyThrows(w)

SpecExecuteTask == InitExecuteTask /\ [][NextExecuteTask]_vars

\* ------------------------------------ UtilityExecutor::execute_with_context
\* utility_executor.h 119-174 for the tasks UtilityAdapter::emit_on(ctx,
\* inputs) emits: every task has a UtilityExecutor of its own around the same
\* utility_ and its own TaskContext, and the tasks run on the executor's
\* worker threads.  The behavior chain is empty (on_error: rethrow).

MaxCtxTasks == 3

CtxTasks == 1..MaxCtxTasks

UCOthers == <<streamVars, partVars, splitVars, mapVars, extVars, batchVars, phaseVars, execVars, reqVars, estVars, metaVars, pfVars, taskVars, retryVars, cacheVars>>

InitContext ==
    /\ ctx_ = 0
    /\ uc_pc = [t \in CtxTasks |-> "start"]
    /\ uc_seen = [t \in CtxTasks |-> {}]
    /\ NoReader
    /\ StreamIdle
    /\ PartitionIdle
    /\ SplitIdle
    /\ MapperIdle
    /\ ExtractIdle
    /\ BatchIdle
    /\ PhasesIdle
    /\ ExecutorIdle
    /\ RequestIdle
    /\ EstimateIdle
    /\ MetadataIdle
    /\ PlainIterIdle
    /\ ExecuteTaskIdle
    /\ RetryIdle
    /\ CacheIdle

\* Utility::set_context
set_context(t) == t

\* Utility::clear_context
clear_context == 0

\* Utility::context: the TaskContext the pointer is at, or a throw
context == [thrown |-> ctx_ = 0, ctx |-> ctx_]

\* utility_->set_context(ctx), and process is entered
UCSetContext(t) ==
    /\ uc_pc[t] = "start"
    /\ ctx_' = set_context(t)
    /\ uc_pc' = [uc_pc EXCEPT ![t] = "process"]
    /\ UNCHANGED uc_seen
    /\ UNCHANGED UCOthers

\* process calls context() and gets a TaskContext
UCContext(t) ==
    /\ uc_pc[t] = "process"
    /\ ~context.thrown
    /\ uc_seen' = [uc_seen EXCEPT ![t] = @ \cup {context.ctx}]
    /\ UNCHANGED <<ctx_, uc_pc>>
    /\ UNCHANGED UCOthers

\* process calls context(), which throws: process is left by the exception
UCContextThrows(t) ==
    /\ uc_pc[t] = "process"
    /\ context.thrown
    /\ uc_seen' = [uc_seen EXCEPT ![t] = @ \cup {0}]
    /\ uc_pc' = [uc_pc EXCEPT ![t] = "catch"]
    /\ UNCHANGED ctx_
    /\ UNCHANGED UCOthers

\* process returns, utility_->clear_context(), the result is returned
UCProcessReturns(t) ==
    /\ uc_pc[t] = "process"
    /\ ctx_' = clear_context
    /\ uc_pc' = [uc_pc EXCEPT ![t] = "returned"]
    /\ UNCHANGED uc_seen
    /\ UNCHANGED UCOthers

\* process throws of its own
UCProcessThrows(t) ==
    /\ uc_pc[t] = "process"
    /\ uc_pc' = [uc_pc EXCEPT ![t] = "catch"]
    /\ UNCHANGED <<ctx_, uc_seen>>
    /\ UNCHANGED UCOthers

\* the catch clause: utility_->clear_context(), on_error, rethrow
UCCatch(t) ==
    /\ uc_pc[t] = "catch"
    /\ ctx_' = clear_context
    /\ uc_pc' = [uc_pc EXCEPT ![t] = "thrown"]
    /\ UNCHANGED uc_seen
    /\ UNCHANGED UCOthers

NextContext ==
    \/ \E t \in CtxTasks : UCSetContext(t)
    \/ \E t \in CtxTasks : UCContext(t)
    \/ \E t \in CtxTasks : UCContextThrows(t)
    \/ \E t \in CtxTasks : UCProcessReturns(t)
    \/ \E t \in CtxTasks : UCProcessThrows(t)
    \/ \E t \in CtxTasks : UCCatch(t)

SpecContext == InitContext /\ [][NextContext]_vars

\* --------------------------------- UtilityExecutor::execute, RetryBehavior
\* utility_executor.h 58-107 with a behavior chain that holds one
\* RetryBehavior (retry_behavior.h).  A failing process throws an exception
\* derived from std::exception, the kind on_error is given.

MaxRetries == 3
MaxBaseDelay == 2
MaxBackoffShift == 10

RTOthers == <<streamVars, partVars, splitVars, mapVars, extVars, batchVars, phaseVars, execVars, reqVars, estVars, metaVars, pfVars, taskVars, ctxVars, cacheVars>>

RECURSIVE ShiftLeft(_, _)
ShiftLeft(x, n) == IF n = 0 THEN x ELSE ShiftLeft(2 * x, n - 1)

\* RetryBehavior::calculate_delay
calculate_delay(a) ==
    IF ~exponential_backoff_ THEN base_delay_
    ELSE base_delay_ * ShiftLeft(1, Min(a, MaxBackoffShift))

MaxRetriesExceeded(attempts) ==
    [type |-> "MaxRetriesExceeded", attempts |-> attempts]

\* A faulty on_error that allows one retry too many.
RetryBehavior_on_error_late(a) ==
    IF a > max_retries_
    THEN [action |-> "Rethrow", exception |-> MaxRetriesExceeded(a + 1), delay |-> 0]
    ELSE [action |-> "Retry", exception |-> << >>, delay |-> calculate_delay(a)]

\* RetryBehavior::on_error
RetryBehavior_on_error(a) ==
    IF a >= max_retries_
    THEN [action |-> "Rethrow", exception |-> MaxRetriesExceeded(a + 1), delay |-> 0]
    ELSE [action |-> "Retry", exception |-> << >>, delay |-> calculate_delay(a)]

\* RetryBehavior(max_retries, base_delay, exponential_backoff) in the chain
\* of a UtilityExecutor, and execute is called.
InitRetry ==
    /\ max_retries_ \in 0..MaxRetries
    /\ base_delay_ \in 0..MaxBaseDelay
    /\ exponential_backoff_ \in BOOLEAN
    /\ attempt = 0
    /\ invocations = 0
    /\ slept = 0
    /\ rt_pc = "process"
    /\ rt_thrown = << >>
    /\ NoReader
    /\ StreamIdle
    /\ PartitionIdle
    /\ SplitIdle
    /\ MapperIdle
    /\ ExtractIdle
    /\ BatchIdle
    /\ PhasesIdle
    /\ ExecutorIdle
    /\ RequestIdle
    /\ EstimateIdle
    /\ MetadataIdle
    /\ PlainIterIdle
    /\ ExecuteTaskIdle
    /\ ContextIdle
    /\ CacheIdle

\* before_process, process and after_process return: execute returns
RetryProcessReturns ==
    /\ rt_pc = "process"
    /\ invocations' = invocations + 1
    /\ rt_pc' = "returned"
    /\ UNCHANGED <<max_retries_, base_delay_, exponential_backoff_, attempt,
                   slept, rt_thrown>>
    /\ UNCHANGED RTOthers

\* process throws: control is in the catch clause
RetryProcessThrows ==
    /\ rt_pc = "process"
    /\ invocations' = invocations + 1
    /\ rt_pc' = "on_error"
    /\ UNCHANGED <<max_retries_, base_delay_, exponential_backoff_, attempt,
                   slept, rt_thrown>>
    /\ UNCHANGED RTOthers

\* behavior_chain_.on_error says Retry: ++attempt; continue
RetryAgain ==
    /\ rt_pc = "on_error"
    /\ RetryBehavior_on_error(attempt).action = "Retry"
    /\ slept' = slept + RetryBehavior_on_error(attempt).delay
    /\ attempt' = attempt + 1
    /\ rt_pc' = "process"
    /\ UNCHANGED <<max_retries_, base_delay_, exponential_backoff_,
                   invocations, rt_thrown>>
    /\ UNCHANGED RTOthers

\* behavior_chain_.on_error says Rethrow: std::rethrow_exception
RetryRethrow ==
    /\ rt_pc = "on_error"
    /\ RetryBehavior_on_error(attempt).action = "Rethrow"
    /\ rt_thrown' = RetryBehavior_on_error(attempt).exception
    /\ rt_pc' = "thrown"
    /\ UNCHANGED <<max_retries_, base_delay_, exponential_backoff_, attempt,
                   invocations, slept>>
    /\ UNCHANGED RTOthers

NextRetry ==
    \/ RetryProcessReturns
    \/ RetryProcessThrows
    \/ RetryAgain
    \/ RetryRethrow

SpecRetry == InitRetry /\ [][NextRetry]_vars

\* ------------------------------------------------------- CachingBehavior
\* caching_behavior.h.  The cache is a function on the keys it holds; an
\* entry is expired when its age has reached the TTL, which the passing of
\* time brings about.

MaxCacheSize == 2
MaxKeys == 3
MaxCacheValue == 1

CacheKeys == 1..MaxKeys
CacheValues == 0..MaxCacheValue

CBOthers == <<streamVars, partVars, splitVars, mapVars, extVars, batchVars, phaseVars, execVars, reqVars, estVars, metaVars, pfVars, taskVars, ctxVars, retryVars>>

\* cache_.erase(key), cache_[key] = entry
MapErase(c, key) == [k \in DOMAIN c \ {key} |-> c[k]]
MapPut(c, key, e) == [k \in DOMAIN c \cup {key} |-> IF k = key THEN e ELSE c[k]]

\* lru_list_.erase(iterator of key)
ListErase(l, key) == SelectSeq(l, LAMBDA k : k # key)

\* CachingBehavior::is_expired
is_expired(entry) == entry.expired

\* CachingBehavior::evict_lru
evict_lru(cb) ==
    IF cb.lru = << >> THEN cb
    ELSE [cache |-> MapErase(cb.cache, cb.lru[Len(cb.lru)]),
          lru |-> SubSeq(cb.lru, 1, Len(cb.lru) - 1)]

\* CachingBehavior::touch
touch(cb, key) ==
    IF ~use_lru_ THEN cb
    ELSE [cb EXCEPT !.lru = <<key>> \o ListErase(cb.lru, key)]

\* CachingBehavior::after_process, from "Need to insert new entry" on
insert_entry(cb, input, res) ==
    LET room == IF Cardinality(DOMAIN cb.cache) >= max_cache_size_
                THEN evict_lru(cb) ELSE cb
    IN  [cache |-> MapPut(room.cache, input,
                          [value |-> res, expired |-> FALSE]),
         lru |-> IF use_lru_ THEN <<input>> \o room.lru ELSE room.lru]

\* CachingBehavior::after_process
after_process(cb, input, res) ==
    IF input \in DOMAIN cb.cache
    THEN IF is_expired(cb.cache[input])
         THEN insert_entry(
                  [cache |-> MapErase(cb.cache, input),
                   lru |-> IF use_lru_ THEN ListErase(cb.lru, input)
                           ELSE cb.lru],
                  input, res)
         ELSE touch([cb EXCEPT !.cache[input] =
                         [value |-> res, expired |-> FALSE]], input)
    ELSE insert_entry(cb, input, res)

\* CachingBehavior::on_error
CB_on_error(cb, input) ==
    IF input \in DOMAIN cb.cache THEN touch(cb, input) ELSE cb

\* CachingBehavior::get
CB_get(cb, input) ==
    IF input \in DOMAIN cb.cache /\ ~is_expired(cb.cache[input])
    THEN touch(cb, input) ELSE cb

\* CachingBehavior::size
CB_size == Cardinality(DOMAIN cache_)

CacheNow == [cache |-> cache_, lru |-> lru_list_]

\* CachingBehavior(max_size, ttl, use_lru)
InitCache ==
    /\ max_cache_size_ \in 0..MaxCacheSize
    /\ use_lru_ \in BOOLEAN
    /\ cache_ = << >>
    /\ lru_list_ = << >>
    /\ NoReader
    /\ StreamIdle
    /\ PartitionIdle
    /\ SplitIdle
    /\ MapperIdle
    /\ ExtractIdle
    /\ BatchIdle
    /\ PhasesIdle
    /\ ExecutorIdle
    /\ RequestIdle
    /\ EstimateIdle
    /\ MetadataIdle
    /\ PlainIterIdle
    /\ ExecuteTaskIdle
    /\ ContextIdle
    /\ RetryIdle

CacheAfterProcess(input, res) ==
    /\ cache_' = after_process(CacheNow, input, res).cache
    /\ lru_list_' = after_process(CacheNow, input, res).lru
    /\ UNCHANGED <<max_cache_size_, use_lru_>>
    /\ UNCHANGED CBOthers

CacheOnError(input) ==
    /\ cache_' = CB_on_error(CacheNow, input).cache
    /\ lru_list_' = CB_on_error(CacheNow, input).lru
    /\ UNCHANGED <<max_cache_size_, use_lru_>>
    /\ UNCHANGED CBOthers

CacheGet(input) ==
    /\ cache_' = CB_get(CacheNow, input).cache
    /\ lru_list_' = CB_get(CacheNow, input).lru
    /\ UNCHANGED <<max_cache_size_, use_lru_>>
    /\ UNCHANGED CBOthers

\* CachingBehavior::clear
CacheClear ==
    /\ cache_' = << >>
    /\ lru_list_' = << >>
    /\ UNCHANGED <<max_cache_size_, use_lru_>>
    /\ UNCHANGED CBOthers

\* Time passes and the age of an entry reaches the TTL.
CacheExpire(key) ==
    /\ key \in DOMAIN cache_
    /\ ~cache_[key].expired
    /\ cache_' = [cache_ EXCEPT ![key].expired = TRUE]
    /\ UNCHANGED <<max_cache_size_, use_lru_, lru_list_>>
    /\ UNCHANGED CBOthers

NextCache ==
    \/ \E k \in CacheKeys, v \in CacheValues : CacheAfterProcess(k, v)
    \/ \E k \in CacheKeys : CacheOnError(k)
    \/ \E k \in CacheKeys : CacheGet(k)
    \/ CacheClear
    \/ \E k \in CacheKeys : CacheExpire(k)

SpecCache == InitCache /\ [][NextCache]_vars

\* ------------------------------------------------ stream claims (C2..C8)
IsPrefix(a, b) == Len(a) <= Len(b) /\ a = SubSeq(b, 1, Len(a))

\* Length of the longest line of text, its newline included.
RECURSIVE LongestLine(_, _)
LongestLine(text, pos) ==
    IF pos >= Len(text) THEN 0
    ELSE LET nl == FindNewline(text, pos)
             e  == IF nl = -1 THEN Len(text) ELSE nl + 1
             rest == LongestLine(text, e)
         IN  IF e - pos > rest THEN e - pos ELSE rest

\* The in-range lines of the underlying stream: what the stream has to yield.
InRange ==
    IF start_line = 0 /\ end_line = 0 THEN content
    ELSE LinesOf(content, 0, start_line - initial_line + 1,
                 end_line - initial_line + 1)

EndsWithNL(b) == b = << >> \/ b[Len(b)] = NL

\* C2: with every buffer at least as large as the longest line (newline
\* included), the bytes returned so far are a prefix of the in-range lines,
\* unmodified and in order, and a stream that is done has returned all of them.
C2_RetainsLineAcrossReads ==
    minBuf >= LongestLine(content, 0) =>
        /\ IsPrefix(out, InRange)
        /\ (StreamDone(st) => out = InRange)

\* C3: a stream on LineRange [a, b] never returns anything but the lines
\* a..b in order, and once done it has returned exactly these b - a + 1 lines,
\* whatever the buffer sizes.
C3_LineRangeExact ==
    start_line > 0 =>
        /\ IsPrefix(out, InRange)
        /\ (StreamDone(st) =>
               out = InRange /\ CountNL(out) = end_line - start_line + 1)

\* C6: a read() that returns 0 leaves done() true, and done() does not turn
\* true during a read() that returned bytes.
C6_ZeroIffDone ==
    calls > 0 =>
        /\ (lastRet = << >> => StreamDone(st))
        /\ (lastRet # << >> /\ ~doneBefore => ~StreamDone(st))

\* C7: a Line stream's read() returns exactly one complete line, newline
\* included, and a MultiLines stream's read() returns whole lines only: every
\* returned chunk starts at a line start and ends with a newline.
C7_NoFragment ==
    /\ EndsWithNL(out)
    /\ EndsWithNL(lastRet)
    /\ (kind = "Line" /\ lastRet # << >> => CountNL(lastRet) = 1)

\* C8: read() returns 0 on a stream that is not done only if the buffer is
\* smaller than the next line; a buffer that holds the longest line (newline
\* included) is never refused.
C8_ZeroOnlyIfBufferTooSmall ==
    calls > 0 /\ lastRet = << >> /\ ~StreamDone(st) =>
        lastBuf < LongestLine(content, 0)

\* ------------------------------------------- partition claims (C1, C4, C5)
\* The line starts of the archive, and its end.
LineStartSet ==
    {0, Len(content)} \cup {p \in 1..Len(content) : content[p] = NL}

FirstStartAtOrAfter(x) ==
    CHOOSE p \in LineStartSet :
        p >= x /\ \A q \in LineStartSet : q >= x => p <= q

\* What a stream over [a, b) has to return in all.
Region(a, b) == Bytes(content, FirstStartAtOrAfter(a), FirstStartAtOrAfter(b))

AllWorkersDone == num_workers > 0 /\ \A i \in 1..num_workers : wpc[i] = "done"

RECURSIVE LenOfFirst(_, _)
LenOfFirst(rs, j) == IF j = 0 THEN 0 ELSE Len(rs[j]) + LenOfFirst(rs, j - 1)

\* C1: once every chunk of the partition has been read to done(), the chunks'
\* bytes, taken in the order of the partition, are the archive itself: every
\* line stands in exactly one chunk and none is missing, wherever the
\* boundaries fall.
C1_PartitionComplete ==
    AllWorkersDone => ConcatChunks(chunks, num_workers) = content

C1_Witness ==
    /\ AllWorkersDone
    /\ num_workers >= 3
    /\ \A i \in 1..num_workers : cuts[i] < cuts[i + 1]
    /\ \E i \in 2..num_workers :
          cuts[i] \in LineStartSet /\ chunks[i] # << >>
    /\ \E i \in 2..num_workers : content[cuts[i] + 1] = NL
    /\ \E i \in 1..num_workers : chunks[i] = << >>

AllChunksSucceeded == \A i \in 1..Len(results) : results[i].success

\* C9: a split run that produced chunks exits with 0 if and only if every
\* chunk succeeded and, when --verify was given, the verification passed.
C9_ExitZeroIffAllGood ==
    dpc = "exited" /\ results # << >> =>
        (exit_code = 0 <=>
            AllChunksSucceeded /\ (verify => verify_result.passed))

ResultOrders(n) ==
    {p \in [1..n -> 1..n] : \A i, j \in 1..n : i # j => p[i] # p[j]}

\* The results of the chunks of ms when every extraction task succeeds.
AllExtracted(ms) == [i \in 1..Len(ms) |-> extract_and_write(i, ms[i], TRUE)]

\* C11: the verification passes iff the input hash equals the output hash;
\* the verifier's result is the same for every order of the chunk results,
\* and, when every chunk succeeded, its output hash is the same for every
\* distribution of the lines over chunks.
C11_VerifyOrderIndependent ==
    verify_result.ran =>
        /\ (verify_result.passed <=>
               verify_result.input_hash = verify_result.output_hash)
        /\ \A p \in ResultOrders(Len(results)) :
              ChunkVerifier_process([i \in 1..Len(results) |-> results[p[i]]],
                                    all_metadata, unopened) = verify_result
        /\ (AllChunksSucceeded =>
               \A ms \in ManifestMapper_outputs(all_metadata) :
                   ChunkVerifier_process(AllExtracted(ms), all_metadata,
                                         unopened).output_hash
                       = verify_result.output_hash)

\* Several chunks whose events, taken chunk after chunk, are not in sorted
\* order, and a verification that passed.
C11_Witness ==
    /\ verify_result.ran
    /\ verify_result.passed
    /\ AllChunksSucceeded
    /\ Len(results) >= 2
    /\ \E i, j \in 1..Len(results) :
          /\ i < j
          /\ results[i].event_ids # << >>
          /\ results[j].event_ids # << >>
          /\ results[i].event_ids # results[j].event_ids
    /\ GatherEvents(results, 1) # SortEvents(GatherEvents(results, 1))

\* ------------------------------------------- mapper claims (C12, C13)
RECURSIVE FlatSpecs(_, _)
FlatSpecs(ms, k) ==
    IF k > Len(ms) THEN << >> ELSE ms[k].specs \o FlatSpecs(ms, k + 1)

\* Every spec emitted or placed so far, in order.
PlacedSpecs == FlatSpecs(mapped, 1) \o current_manifest.specs

SpecLines(spec) == spec.start_line..spec.end_line

\* C12: when the mapper is done, the line ranges of the specs of an input
\* file, over all manifests, are pairwise disjoint and their union is the
\* file's start_line..end_line; a file whose metadata failed has no spec.
C12_ManifestCoverage ==
    mpc = "done" =>
        LET all == FlatSpecs(mapped, 1) IN
        \A f \in 1..Len(file_metadata) :
            LET of_file == {k \in 1..Len(all) : all[k].file = f} IN
            /\ \A i, j \in of_file :
                  i # j => SpecLines(all[i]) \cap SpecLines(all[j]) = {}
            /\ UNION {SpecLines(all[k]) : k \in of_file} =
                   IF file_metadata[f].success
                   THEN file_metadata[f].start_line..file_metadata[f].end_line
                   ELSE {}

\* Two files, the first split over several chunks, a chunk with specs of
\* both files.
C12_Witness ==
    /\ mpc = "done"
    /\ Len(file_metadata) = 2
    /\ \A f \in 1..2 : file_metadata[f].success
    /\ Len(mapped) >= 3
    /\ \E k \in 1..Len(mapped) :
          /\ Len(mapped[k].specs) = 2
          /\ mapped[k].specs[1].file # mapped[k].specs[2].file
    /\ \E k \in 1..Len(mapped) :
          mapped[k].specs[1].file = 1 /\ mapped[k].specs[1].end_line
              < file_metadata[1].end_line

TotalLines ==
    LET n == Len(file_metadata)
        count[f \in 0..n] ==
            IF f = 0 THEN 0
            ELSE count[f - 1] + (IF file_metadata[f].success
                                 THEN file_metadata[f].end_line ELSE 0)
    IN  count[n]

RECURSIVE AcceptedLines(_, _, _)
AcceptedLines(lines, from, to) ==
    IF from > to \/ from > Len(lines) THEN << >>
    ELSE LET v == json_trim_and_validate(lines[from]) IN
         (IF v.ok THEN v.trimmed \o <<NL>> ELSE << >>)
             \o AcceptedLines(lines, from + 1, to)

RECURSIVE AcceptedOfSpecs(_, _)
AcceptedOfSpecs(specs, k) ==
    IF k > Len(specs) THEN << >>
    ELSE AcceptedLines(src_files[specs[k].file], specs[k].start_line,
                       specs[k].end_line) \o AcceptedOfSpecs(specs, k + 1)

\* The events the extractor keeps of the manifest, in spec order and, within
\* a spec, in line order.
RECURSIVE KeptOfManifest(_, _)
KeptOfManifest(specs, k) ==
    IF k > Len(specs) THEN << >>
    ELSE WriteLines(src_files[specs[k].file], specs[k].start_line,
                    specs[k].end_line).written \o KeptOfManifest(specs, k + 1)

Framed(events) == <<LBRACKET, NL>> \o events \o <<NL, RBRACKET, NL>>

\* C14: the chunk file the extractor has written and closed holds, between
\* its brackets, exactly the lines of the manifest's ranges that the JSON
\* validator accepts, each once: a line is written iff the validator
\* accepts it.
C14_WritesIffValid ==
    epc = "compress" =>
        output_file.content = Framed(AcceptedOfSpecs(ext_input.specs, 1))

\* C15: the chunk file of a successful extraction, plain or, once
\* decompressed, compressed, is "[\n", the kept events in spec order and line
\* order, each trimmed and followed by a newline, and "\n]\n".
C15_ChunkFileFramed ==
    epc = "done" /\ result.success =>
        LET expected == Framed(KeptOfManifest(ext_input.specs, 1)) IN
        IF result.output_path.ext = ".pfw"
        THEN output_file.exists /\ output_file.content = expected
        ELSE /\ compressed_file.exists
             /\ compressed_file.finished
             /\ compressed_file.data = expected

\* C16: an extraction in which a step failed (the output file could not be
\* opened, no hash state, the reader threw, the compression failed) returns
\* success = false.
C16_FailureReported ==
    epc = "done" /\ failure # "none" => ~result.success

\* C17: after an extraction that returned success = false, no output file of
\* the chunk exists.
C17_PartialFileRemoved ==
    epc = "done" /\ ~result.success =>
        ~output_file.exists /\ ~compressed_file.exists

\* C18: the output_path of a successful extraction is
\* <output_dir>/<app_name>-<chunk_index>.pfw, with ".gz" appended exactly
\* when compress was requested.
C18_OutputPath ==
    epc = "done" /\ result.success =>
        result.output_path =
            [chunk_index |-> ext_input.chunk_index,
             ext |-> IF ext_input.compress THEN ".pfw.gz" ELSE ".pfw"]

\* ------------------------------------------- batch ordering claims (C20)
\* C20: the results the batch processor returns are in ascending order of
\* chunk_index and hold every task's result exactly once, whatever order the
\* extraction tasks completed in.
C20_ResultsAscending ==
    bpc = "returned" =>
        /\ Len(batch_results) = Len(items)
        /\ \A i \in 1..Len(batch_results) :
              /\ batch_results[i].chunk_index = i
              /\ batch_results[i] = task_results[i]
        /\ \A i \in 1..(Len(batch_results) - 1) :
              batch_results[i].chunk_index < batch_results[i + 1].chunk_index

\* Three or more tasks, the last chunk's task completing first and the first
\* chunk's task last, one of the extractions failing.
C20_Witness ==
    /\ bpc = "returned"
    /\ Len(batch_results) >= 3
    /\ completed[1] = Len(items)
    /\ completed[Len(completed)] = 1
    /\ \E i \in 1..Len(batch_results) : ~batch_results[i].success
    /\ \E i \in 1..Len(batch_results) : batch_results[i].success

\* ------------------------------------------- driver exit claims (C19)
\* C19: when the metadata collection of an input file failed, the run exits
\* with a non-zero code.
C19_FailedFileNonZeroExit ==
    dpc = "exited" /\ (\E f \in 1..Len(all_metadata) : ~all_metadata[f].success)
        => exit_code # 0

\* ----------------------------------- driver phase claims (C21, C22)
\* C21: while the index-building phase runs, at most one index-building task
\* is executing at any time.
C21_IndexBuildsSerialized ==
    phase = 0 => Cardinality(Running) <= 1

\* C22: when the manifest mapper is started, every metadata task has
\* completed and the mapper's input holds the result of every file's task, in
\* the files' order.
C22_MapperAfterAllMetadata ==
    mapper_input.started =>
        /\ \A i \in 1..Len(tasks) : tasks[i].state = "done"
        /\ Len(mapper_input.metadata) = dir_files
        /\ \A i \in 1..dir_files :
              mapper_input.metadata[i] =
                  [file |-> i, success |-> tasks[i].success]

\* The mapper started after three metadata tasks of which two ran at the same
\* time, one of them failing.
C22_Witness ==
    /\ mapper_input.started
    /\ dir_files = 3
    /\ peak_running >= 2
    /\ \E i \in 1..dir_files : ~mapper_input.metadata[i].success

\* ------------------------------------- executor claims (C23, C24)
\* C23: once shutdown has returned, a task that was queued when shutdown was
\* asked for has not been started and its promise is not pending (it was
\* completed with the Cancelled error).
C23_QueuedTaskCancelled ==
    xpc = "stopped" =>
        \A t \in at_shutdown.queued :
            /\ t \notin tasks_started
            /\ promise[t] # "pending"

\* C24: a task that was running when shutdown was asked for is either still
\* executing or has its promise fulfilled, and once shutdown has returned no
\* task is executing and every started task's promise is fulfilled.
C24_RunningTaskCompletes ==
    /\ \A t \in at_shutdown.running :
          t \in ExecutingTasks \/ promise[t] \in {"value", "exception"}
    /\ xpc = "stopped" =>
          /\ ExecutingTasks = {}
          /\ \A t \in tasks_started : promise[t] \in {"value", "exception"}

\* shutdown() returned after it was called while one task was executing and
\* another was queued.
C24_Witness ==
    /\ xpc = "stopped"
    /\ at_shutdown.running # {}
    /\ at_shutdown.queued # {}
    /\ ~shutdown_requested_
    /\ \A t \in at_shutdown.running : promise[t] \in {"value", "exception"}

\* ------------------------------------- stream state claims (C25)
\* C25: a read() called when done() is true, or after the underlying stream
\* has failed, returns 0 and leaves done() true.
C25_Unidirectional ==
    [][(StreamDone(st) \/ Failed(st)) =>
           (lastRet' = << >> /\ StreamDone(st'))]_vars

\* A read() that returned 0 with done() true before and after it, on a
\* stream that had delivered bytes before its underlying stream failed.
C25_Witness ==
    /\ calls >= 3
    /\ doneBefore
    /\ Failed(st)
    /\ StreamDone(st)
    /\ out # << >>
    /\ lastRet = << >>

C27_EmptyRangeYieldsNothing ==
    handed = "stream" /\ start_bytes = end_bytes /\ calls >= 1 =>
        /\ out = << >>
        /\ RequestedDone(st)

\* A MULTI_LINES stream over an empty range in the middle of a line of the
\* content, read once.
C27_Witness ==
    /\ handed = "stream"
    /\ stream_type = "MULTI_LINES"
    /\ start_bytes = end_bytes
    /\ start_bytes > 0
    /\ start_bytes < max_bytes
    /\ content[start_bytes] # NL
    /\ calls = 1
    /\ lastRet = << >>
    /\ RequestedDone(st)

\* C28: estimate_lines_in_range(start, end) returns the byte density with
\* 10% headroom rounded up, ceil((end - start) * num_lines / max_bytes * 1.1),
\* for every start <= end <= max_bytes.
C28_EstimateIsCeil ==
    est_pc = "returned" /\ est_max_bytes > 0 =>
        est_lines = CeilEstimate(est_num_lines, est_max_bytes,
                                 est_start, est_end)

\* C29: for every input file, compressed or plain, the metadata's
\* valid_events is the number of lines of the file that the validator
\* accepts: the events are validated, not inferred from the line count.
C29_ValidEventsValidated ==
    md_pc = "returned" /\ md_meta.success =>
        md_meta.valid_events =
            ValidatedEvents(md_lines, Len(md_lines)).valid_events

\* C30: reading a plain file through PlainFileBytesIterator over adjacent
\* byte ranges that partition [0, file_size) yields every line of the file
\* exactly once across the chunks, for every choice of boundaries. The
\* chunks are read in order, so the lines yielded are then the file's lines
\* in the file's order.
C30_EveryLineExactlyOnce ==
    pf_pc = "done" => pf_yielded = PlainLines(pf_text)

\* The complete lines of the output range among the bytes the stream has
\* pulled from the underlying stream so far.
PulledInRange(s) ==
    Cardinality({i \in 1..CountNL(Bytes(content, 0, s.upos)) :
        /\ initial_line + i - 1 >= start_line
        /\ (end_line = 0 \/ initial_line + i - 1 <= end_line)})

\* C31: MultiLineStream never reports done() while a complete line of the
\* output range that it has already pulled from the underlying stream is
\* still undelivered: when done() is true, as many lines have been output as
\* were pulled in range.
C31_NoDoneWithPulledLines ==
    kind = "MultiLines" /\ StreamDone(st) => st.nout >= PulledInRange(st)

\* C32: compress_output returns true only after the gzip stream has been
\* finalised, so that decompressing the file it leaves yields exactly the
\* plain chunk file, whatever the length of that file: a result that names
\* the compressed file names a finished stream of the chunk file's bytes.
C32_CompressedFileFinalised ==
    epc = "done" /\ result.output_path.ext = ".pfw.gz" =>
        /\ compressed_file.finished
        /\ compressed_file.data = Framed(KeptOfManifest(ext_input.specs, 1))

\* C33: for the byte-range line iterators, whenever has_next() returns true
\* the following next() returns a line: the loop
\* while (it.has_next()) it.next() ends without an exception, for every
\* content and range.
C33_LoopNeverThrows == pf_pc # "thrown"

\* ------------------------------------- execute_task claims (C34)
\* A task that came out of execute_task had its promise fulfilled once and
\* was counted once.
TaskSettledOnce(t) == t.fulfilled = 1 /\ t.counted = 1

\* C34: every task a worker executed has its promise fulfilled exactly once
\* and tasks_completed_ incremented exactly once, whatever the task body or
\* the completion callback throws, and tasks_completed_ <= tasks_started_.
C34_SettledExactlyOnce ==
    /\ \A t \in et_finished : TaskSettledOnce(t)
    /\ tasks_completed_ <= tasks_started_

\* ------------------------------------- utility context claims (C35)
\* C35: while process() of a task runs under execute_with_context, context()
\* gives the TaskContext of that task: never nullptr (0), never the
\* TaskContext of another task, also with several tasks on one utility.
C35_ContextIsOwn == \A t \in CtxTasks : uc_seen[t] \subseteq {t}

\* ------------------------------------- executor shutdown claims (C36)
\* C36: after shutdown() is called on a running executor every worker thread
\* eventually leaves its loop and shutdown() returns, the running tasks
\* coming to their end; once shutdown() has returned no worker is running.
C36_ShutdownTerminates ==
    /\ (xpc = "joining") ~> (xpc = "stopped")
    /\ [](xpc = "stopped" =>
            \A w \in 1..num_threads_ : worker_pc[w] = "terminated")

\* shutdown() returned on two workers of which one was executing a task and
\* the other was blocked in pop when it was called.
C36_Witness ==
    /\ xpc = "stopped"
    /\ num_threads_ = 2
    /\ Cardinality(at_shutdown.running) = 1
    /\ at_shutdown.queued = {}
    /\ \A w \in 1..num_threads_ : worker_pc[w] = "terminated"

\* ------------------------------------- request_shutdown claims (C37)
\* C37: request_shutdown() stops the executor accepting new tasks and waits
\* for the tasks that are running to complete: once it has returned the queue
\* is shut down and no task that was running when it was called is pending.
C37_RequestShutdownWaits ==
    shutdown_requested_ =>
        /\ queue_shutdown
        /\ \A t \in at_shutdown.running : promise[t] \in {"value", "exception"}

\* ------------------------------------- retry claims (C38)
\* C38: with RetryBehavior(max_retries = N) process is never invoked more
\* than N + 1 times (the loop ends), and when execute has thrown, which is
\* when process failed on every attempt, process was invoked exactly N + 1
\* times and the exception is MaxRetriesExceeded reporting N + 1 attempts.
C38_RetriesBounded ==
    /\ invocations <= max_retries_ + 1
    /\ attempt <= max_retries_
    /\ rt_pc = "thrown" =>
          /\ invocations = max_retries_ + 1
          /\ rt_thrown = MaxRetriesExceeded(max_retries_ + 1)

\* execute threw after four failed invocations under three retries with
\* exponential backoff.
C38_Witness ==
    /\ rt_pc = "thrown"
    /\ max_retries_ = 3
    /\ invocations = 4
    /\ exponential_backoff_
    /\ slept = 7 * base_delay_
    /\ base_delay_ > 0

\* ------------------------------------- cache claims (C39)
\* C39: a CachingBehavior never holds more than max_size entries, after any
\* sequence of after_process, get, on_error and clear calls, for every
\* max_size and for use_lru true or false.
C39_SizeWithinMax == CB_size <= max_cache_size_

====
